---------------------------- MODULE Spec2Model ----------------------------
(***************************************************************************)
(* A model of the UTS handbook chatbot's RAG core:                         *)
(*   - src/src/rag/ingest_courses.py      (chunking and chunk identity)    *)
(*   - src/src/rag/save_kb_files.py       (junk filter, index writer)      *)
(*   - src/src/rag/filtered_retrieval.py  (retrieval, quality gate)        *)
(*   - src/src/rag/query_hybrid_rag.py    (retrieval, context, generation) *)
(*   - src/src/rag/query_with_preprocessing.py (the primary pipeline)      *)
(*   - src/src/api_server.py              (the chat endpoint)              *)
(* Python strings are TLA+ strings; Len, SubSeq and \o act on them.        *)
(* Each component has its own specification over the shared variables.     *)
(***************************************************************************)
EXTENDS Integers, Sequences, FiniteSets, TLC

VARIABLES
  \* ---- ingest_courses.py: main() ----
  corpus,             \* the *.json files of courses_dir (indices into Catalogue)
  dry_run,            \* args.dry_run
  now,                \* the wall clock read by datetime.utcnow()
  ipc,                \* position of main(): "start", "loop", "done", "fatal"
  file_idx,           \* how many of the sorted json_files have been processed
  all_chunks,         \* main's all_chunks
  courses_processed,
  courses_skipped,
  out_file,           \* the lines of args.out, or NotWritten
  history,            \* every call of create_chunks_from_course so far, with its result
  runs,               \* how many times main() has been started
  \* ---- query_hybrid_rag.py: build_course_context ----
  hits,               \* the ranked hit list passed in
  max_context_length,
  hit_idx,            \* the position of the hit the for loop visits next
  current_length,
  context_parts,
  included,           \* the positions (in hits) of the hits appended to context_parts
  context,            \* the returned string, or NoReturn
  \* ---- filtered_retrieval.py: check_result_quality ----
  ghits,              \* the hit list passed in
  checks,             \* the returned dict, or NoChecks
  \* ---- retrieve_courses (both modules) ----
  collection,         \* the points stored in the vector collection
  rvariant,           \* "filtered_retrieval" or "query_hybrid_rag"
  rcourse_code,       \* the course_code argument (None or a string)
  rcourse_name,       \* the course_name argument (None or a string)
  rlimit,
  rflt,               \* the query_filter sent to cli.search, or NotSent
  rhits,              \* the returned hits, or NoHits
  \* ---- api_server.py: chat ----
  request,            \* the ChatRequest
  cpc,                \* position of chat()
  final_course_code,
  paths,              \* the calls of query_with_full_pipeline and query_courses so far
  response_text,
  chat_result,        \* the ChatResponse, an HTTP error, or not yet returned
  \* ---- save_kb_files.py: main ----
  jsonl,              \* the lines of args.jsonl
  wpc,                \* position of main()
  rows,
  ids,
  vecs,
  emb_file,           \* embeddings.npy, or NotWritten
  pay_file,           \* payloads.jsonl, or NotWritten
  man_file,           \* manifest.json, or NotWritten
  wexit,              \* "running", "ok", or the message of the SystemExit
  \* ---- upsert_to_qdrant_from_files.py ----
  payloads_file,      \* the lines of args.payloads
  emb_rows,           \* the rows of the array in args.emb
  no_recreate,        \* args.no_recreate
  upc,                \* position of the script: "start", "load", "collection", "upsert"
  uids,               \* ids, as returned by load_payloads
  upayloads,          \* payloads, as returned by load_payloads
  uexit,              \* how the last run ended: "none", "running", "ok" or the SystemExit
  qdrant,             \* the collection args.collection on the server
  qdrant_before,      \* the collection as it was when the current run began
  ops,                \* the collection operations of the current run, in order
  all_unique,         \* no batch so far held two rows with the same chunk id
  \* ---- ingest_courses.py: get_course_code and create_chunks_from_course ----
  course_record,      \* the course_data argument
  file_name,          \* the filename argument
  resolved_code,      \* what get_course_code returned, or NoReturn
  made_chunks,         \* what create_chunks_from_course returned, or NoChunks
  \* ---- save_kb_files.py: looks_junky ----
  junk_text,          \* the text argument (None for a row without text)
  junk_verdict,        \* what looks_junky returned, or NoVerdict
  \* ---- query_with_full_pipeline / query_courses after retrieval ----
  q_func,             \* "query_with_full_pipeline" or "query_courses"
  q_hits,             \* the hits the retrieval returned
  q_topn,             \* the topn argument
  q_shown,            \* the hits printed as top results
  q_answer,            \* the returned text, or NoAnswer
  \* ---- upsert_to_qdrant_from_files.py: the upsert loop ----
  b_store,            \* the collection when the loop begins
  b_ids,              \* ids, as returned by load_payloads
  b_batch,            \* args.batch
  b_done,              \* the collection and the id lists sent when the loop has ended
  \* ---- save_kb_files.py then load_payloads ----
  ch_rows,            \* the rows load_jsonl yielded
  ch_pc,              \* write, load or done
  ch_wexit,           \* how the writer ended
  ch_file,            \* payloads.jsonl
  ch_load             \* what load_payloads returned or raised

ingestVars == <<corpus, dry_run, now, ipc, file_idx, all_chunks, courses_processed,
                courses_skipped, out_file, history, runs>>
ctxVars    == <<hits, max_context_length, hit_idx, current_length, context_parts,
                included, context>>
gateVars   == <<ghits, checks>>
retVars    == <<collection, rvariant, rcourse_code, rcourse_name, rlimit, rflt, rhits>>
chatVars   == <<request, cpc, final_course_code, paths, response_text, chat_result>>
writerVars == <<jsonl, wpc, rows, ids, vecs, emb_file, pay_file,
                man_file, wexit>>
upsertVars == <<payloads_file, emb_rows, no_recreate, upc, uids, upayloads, uexit, qdrant,
                qdrant_before, ops, all_unique>>
chunkerVars == <<course_record, file_name, resolved_code, made_chunks>>
junkVars == <<junk_text, junk_verdict>>
queryVars == <<q_func, q_hits, q_topn, q_shown, q_answer>>
batchVars == <<b_store, b_ids, b_batch, b_done>>
chainVars == <<ch_rows, ch_pc, ch_wexit, ch_file, ch_load>>
vars == <<ingestVars, ctxVars, gateVars, retVars, chatVars, writerVars, upsertVars,
          chunkerVars,
          junkVars,
          queryVars,
          batchVars,
          chainVars>>

\* what the actions of one component leave alone
notIngest == <<ctxVars, gateVars, retVars, chatVars, writerVars, upsertVars,
              chunkerVars,
              junkVars,
              queryVars,
              batchVars,
              chainVars>>
notCtx    == <<ingestVars, gateVars, retVars, chatVars, writerVars, upsertVars,
              chunkerVars,
              junkVars,
              queryVars,
              batchVars,
              chainVars>>
notGate   == <<ingestVars, ctxVars, retVars, chatVars, writerVars, upsertVars,
              chunkerVars,
              junkVars,
              queryVars,
              batchVars,
              chainVars>>
notRet    == <<ingestVars, ctxVars, gateVars, chatVars, writerVars, upsertVars,
              chunkerVars,
              junkVars,
              queryVars,
              batchVars,
              chainVars>>
notChat   == <<ingestVars, ctxVars, gateVars, retVars, writerVars, upsertVars,
              chunkerVars,
              junkVars,
              queryVars,
              batchVars,
              chainVars>>
notWriter == <<ingestVars, ctxVars, gateVars, retVars, chatVars, upsertVars,
              chunkerVars,
              junkVars,
              queryVars,
              batchVars,
              chainVars>>
notUpsert == <<ingestVars, ctxVars, gateVars, retVars, chatVars, writerVars,
              chunkerVars,
              junkVars,
              queryVars,
              batchVars,
              chainVars>>

notChunker == <<ingestVars, ctxVars, gateVars, retVars, chatVars, writerVars, upsertVars,
              junkVars,
              queryVars,
              batchVars,
              chainVars>>

notJunk == <<ingestVars, ctxVars, gateVars, retVars, chatVars, writerVars, upsertVars, chunkerVars,
              queryVars,
              batchVars,
              chainVars>>

notQuery == <<ingestVars, ctxVars, gateVars, retVars, chatVars, writerVars, upsertVars, chunkerVars, junkVars,
              batchVars,
              chainVars>>

notBatch == <<ingestVars, ctxVars, gateVars, retVars, chatVars, writerVars, upsertVars, chunkerVars, junkVars, queryVars,
              chainVars>>

notChain == <<ingestVars, ctxVars, gateVars, retVars, chatVars, writerVars, upsertVars, chunkerVars, junkVars, queryVars, batchVars>>

\* a file of the output directory: not there, or written with these lines
NotWritten   == [written |-> FALSE, lines |-> <<>>]
File(lines)  == [written |-> TRUE, lines |-> lines]
\* Python's None where a string is expected, and "the function has not returned"
None     == "<None>"
NoReturn == "<no return>"

(***************************************************************************)
(* Python str operations                                                   *)
(***************************************************************************)
Ch(s, i) == SubSeq(s, i, i)

Digits     == {"0", "1", "2", "3", "4", "5", "6", "7", "8", "9"}
Whitespace == {" ", "\t", "\n", "\r"}
LowerAlpha == "abcdefghijklmnopqrstuvwxyz"
UpperAlpha == "ABCDEFGHIJKLMNOPQRSTUVWXYZ"

\* str.upper() and str.lower() of one character
UpperOf == [c \in {Ch(LowerAlpha, i) : i \in 1..26} |->
              Ch(UpperAlpha, CHOOSE i \in 1..26 : Ch(LowerAlpha, i) = c)]
LowerOf == [c \in {Ch(UpperAlpha, i) : i \in 1..26} |->
              Ch(LowerAlpha, CHOOSE i \in 1..26 : Ch(UpperAlpha, i) = c)]

UpperCh(c) == IF c \in DOMAIN UpperOf THEN UpperOf[c] ELSE c

LowerCh(c) == IF c \in DOMAIN LowerOf THEN LowerOf[c] ELSE c

RECURSIVE Upper(_)
Upper(s) == IF s = "" THEN "" ELSE UpperCh(Ch(s, 1)) \o Upper(SubSeq(s, 2, Len(s)))

RECURSIVE Lower(_)
Lower(s) == IF s = "" THEN "" ELSE LowerCh(Ch(s, 1)) \o Lower(SubSeq(s, 2, Len(s)))

RECURSIVE LStrip(_)
LStrip(s) == IF s # "" /\ Ch(s, 1) \in Whitespace THEN LStrip(SubSeq(s, 2, Len(s))) ELSE s

RECURSIVE RStrip(_)
RStrip(s) ==
  IF s # "" /\ Ch(s, Len(s)) \in Whitespace THEN RStrip(SubSeq(s, 1, Len(s) - 1)) ELSE s

Strip(s) == RStrip(LStrip(s))

\* sep.join(parts)
RECURSIVE Join(_, _)
Join(sep, parts) ==
  IF parts = <<>> THEN ""
  ELSE IF Len(parts) = 1 THEN parts[1]
  ELSE parts[1] \o sep \o Join(sep, Tail(parts))

\* s.split(c) for a one-character separator
RECURSIVE SplitFrom(_, _, _, _)
SplitFrom(s, c, i, cur) ==
  IF i > Len(s) THEN <<cur>>
  ELSE IF Ch(s, i) = c THEN <<cur>> \o SplitFrom(s, c, i + 1, "")
  ELSE SplitFrom(s, c, i + 1, cur \o Ch(s, i))

Split(s, c) == SplitFrom(s, c, 1, "")

\* whether sub occurs in s at position i
OccursAt(s, sub, i) == i >= 1 /\ i + Len(sub) - 1 <= Len(s) /\ SubSeq(s, i, i + Len(sub) - 1) = sub

\* \d{n} at position i
DigitsAt(s, i, n) == i + n - 1 <= Len(s) /\ \A k \in i..(i + n - 1) : Ch(s, k) \in Digits

\* the members of a set of numbers in ascending order
RECURSIVE SetToSortedSeq(_)
SetToSortedSeq(S) ==
  IF S = {} THEN <<>>
  ELSE LET m == CHOOSE x \in S : \A y \in S : x <= y
       IN  <<m>> \o SetToSortedSeq(S \ {m})

\* Path(name).stem: the name without its last suffix
Stem(name) ==
  LET dots == {i \in 2..Len(name) : Ch(name, i) = "."}
      last == CHOOSE i \in dots : \A j \in dots : j <= i
  IN  IF dots = {} \/ last = Len(name) THEN name ELSE SubSeq(name, 1, last - 1)

(***************************************************************************)
(* Python values of a course JSON file.  t is the JSON type ("absent": the  *)
(* key is missing), s the text of a string (or json.dumps of a mapping),    *)
(* r what str() gives, l the items of a list.  A list item is a scalar      *)
(* (s: its str()) or a mapping with the keys number and text.               *)
(***************************************************************************)
Absent       == [t |-> "absent", s |-> "", r |-> "", l |-> <<>>]
Null         == [t |-> "null", s |-> "", r |-> "None", l |-> <<>>]
Str(x)       == [t |-> "str", s |-> x, r |-> x, l |-> <<>>]
List(items)  == [t |-> "list", s |-> "", r |-> "<list>", l |-> items]
Dict(js, rp) == [t |-> "dict", s |-> js, r |-> rp, l |-> <<>>]
Scalar(x)     == [isdict |-> FALSE, s |-> x, number |-> "", text |-> ""]
Outcome(n, x) == [isdict |-> TRUE, s |-> "<dict>", number |-> n, text |-> x]

\* bool(value)
Truthy(v) ==
  CASE v.t \in {"absent", "null"} -> FALSE
    [] v.t = "str"  -> v.s # ""
    [] v.t = "list" -> v.l # <<>>
    [] v.t = "dict" -> v.s # "{}"

RECURSIVE IntStr(_)
IntStr(n) ==
  LET d == Ch("0123456789", (n % 10) + 1)
  IN  IF n < 10 THEN d ELSE IntStr(n \div 10) \o d

(***************************************************************************)
(* ingest_courses.py                                                       *)
(***************************************************************************)
\* re.search(r'([C]\d{5})', filename)
extract_course_code_from_filename(filename) ==
  LET P == {i \in 1..Len(filename) : Ch(filename, i) = "C" /\ DigitsAt(filename, i + 1, 5)}
      i == CHOOSE k \in P : \A j \in P : k <= j
  IN  IF P = {} THEN None ELSE SubSeq(filename, i, i + 5)

\* re.search(r'/courses/([cC]\d{5})', url), the group uppercased
extract_course_code_from_url(url) ==
  IF url = None \/ url = "" THEN None
  ELSE LET P == {i \in 1..Len(url) : /\ OccursAt(url, "/courses/", i)
                                     /\ Ch(url, i + 9) \in {"c", "C"}
                                     /\ DigitsAt(url, i + 10, 5)}
           i == CHOOSE k \in P : \A j \in P : k <= j
       IN  IF P = {} THEN None ELSE Upper(SubSeq(url, i + 9, i + 14))

\* a variant that takes any letter for the first character
MatchesCodePattern_any_letter(code) ==
  /\ Len(code) \in {6, 7}
  /\ LowerCh(Ch(code, 1)) \in {Ch(LowerAlpha, i) : i \in 1..26}
  /\ DigitsAt(code, 2, 5)
  /\ Len(code) = 7 => Ch(code, 7) = "\n"

\* re.match(r'^[C]\d{5}$', code, re.IGNORECASE); $ also matches before a final newline
MatchesCodePattern(code) ==
  /\ Len(code) \in {6, 7}
  /\ Ch(code, 1) \in {"C", "c"}
  /\ DigitsAt(code, 2, 5)
  /\ Len(code) = 7 => Ch(code, 7) = "\n"

\* dict.get(key, default) of a key holding a string, null, or nothing
GetOr(v, default) == IF v.t = "absent" THEN default ELSE IF v.t = "null" THEN None ELSE v.s

\* metadata.get('source_url', '')
SourceUrl(course_data) == GetOr(course_data.source_url, "")

get_course_code(course_data, filename) ==
  LET code     == Strip(GetOr(course_data.course_code, ""))
      fromUrl  == extract_course_code_from_url(SourceUrl(course_data))
      fromFile == extract_course_code_from_url(filename)
  IN  IF code # "" /\ MatchesCodePattern(code) THEN Upper(code)
      ELSE IF fromUrl # None THEN fromUrl
      ELSE IF fromFile # None THEN fromFile
      ELSE Upper(Strip(GetOr(course_data.course_code, "UNKNOWN")))

\* uuid.uuid5(NAMESPACE_URL, key): a hash of the key, taken to be collision-free
uuid5(key) == <<"uuid5", key>>

make_chunk_uuid(course_code, chunk_type, chunk_index, unique_id) ==
  uuid5("course|" \o course_code \o "|type:" \o chunk_type \o "|chunk:"
          \o IntStr(chunk_index) \o "|unique:" \o unique_id)

\* the join over the items that have a text: "number. text" per line
OutcomesText(items) ==
  Join("\n", [i \in 1..Len(SelectSeq(items, LAMBDA it : it.text # "")) |->
                LET it == SelectSeq(items, LAMBDA x : x.text # "")[i]
                IN  it.number \o ". " \o it.text])

format_field_value(value) ==
  CASE value.t \in {"absent", "null"} -> ""
    [] value.t = "list" ->
         IF value.l = <<>> THEN ""
         ELSE IF value.l[1].isdict THEN OutcomesText(value.l)
         ELSE LET kept == SelectSeq(value.l, LAMBDA it : it.isdict \/ it.s # "")
              IN  Join(", ", [i \in 1..Len(kept) |-> kept[i].s])
    [] value.t = "dict" -> value.s
    [] value.t = "str"  -> value.s

\* ", ".join(x) of a list of strings, or of the characters of a string
CommaJoin(v) ==
  IF v.t = "str" THEN Join(", ", [i \in 1..Len(v.s) |-> Ch(v.s, i)])
  ELSE Join(", ", [i \in 1..Len(v.l) |-> v.l[i].s])

chunkable_fields ==
  << <<"overview", "Overview">>,
     <<"admission_requirements", "Admission Requirements">>,
     <<"career_options", "Career Options">>,
     <<"course_structure", "Course Structure">>,
     <<"professional_recognition", "Professional Recognition">>,
     <<"inherent_requirements", "Inherent Requirements">>,
     <<"structure_notes", "Structure Notes">>,
     <<"notes", "Notes">> >>

MinFieldLen == 50

\* the course name, taken from the filename when the record has none
CourseName(course_data, filename) ==
  LET given == Strip(GetOr(course_data.course_name, ""))
      parts == Split(Stem(filename), "_")
      name_parts == SelectSeq(parts, LAMBDA p : p \notin {"None", ""} /\ ~MatchesCodePattern(p))
  IN  IF (given = "" \/ given = "TEQSA Category: Australian University") /\ name_parts # <<>>
      THEN Join(" ", name_parts)
      ELSE given

\* a faulty variant: the id is told apart by the source URL, not the filename
UniqueId_source_url(course_data, filename) == SourceUrl(course_data)

\* unique_id = str(Path(filename).stem)
UniqueId(course_data, filename) == Stem(filename)

\* the locals of create_chunks_from_course that every chunk shares
Locals(course_data, filename, clock) ==
  [course_code |-> get_course_code(course_data, filename),
   course_name |-> CourseName(course_data, filename),
   source_url  |-> SourceUrl(course_data),
   ingested_at |-> clock,
   unique_id   |-> UniqueId(course_data, filename)]

ChunkMeta(c, chunk_type, label) ==
  [course_code |-> c.course_code, course_name |-> c.course_name, chunk_type |-> chunk_type,
   chunk_label |-> label, source_url |-> c.source_url, ingested_at |-> c.ingested_at]

\* a faulty variant: the time of ingestion enters the id
MakeChunk_time_based_id(c, chunk_type, label, text, chunk_index) ==
  [id   |-> make_chunk_uuid(c.course_code, chunk_type, chunk_index,
                            c.unique_id \o "@" \o IntStr(c.ingested_at)),
   text |-> text,
   meta |-> ChunkMeta(c, chunk_type, label)]

\* the dict appended to chunks: id, text, meta
MakeChunk(c, chunk_type, label, text, chunk_index) ==
  [id   |-> make_chunk_uuid(c.course_code, chunk_type, chunk_index, c.unique_id),
   text |-> text,
   meta |-> ChunkMeta(c, chunk_type, label)]

\* a variant that measures the text with its surrounding white space
FieldEmitted_unstripped(value) ==
  /\ Truthy(value)
  /\ ~(value.t = "str" /\ (value.s = "None" \/ Strip(value.s) = ""))
  /\ format_field_value(value) # ""
  /\ Len(format_field_value(value)) >= MinFieldLen

\* the two skip tests of the field loop
FieldEmitted(value) ==
  /\ Truthy(value)
  /\ ~(value.t = "str" /\ (value.s = "None" \/ Strip(value.s) = ""))
  /\ format_field_value(value) # ""
  /\ Len(Strip(format_field_value(value))) >= MinFieldLen

\* a faulty variant: a skipped field uses up an ordinal too
RECURSIVE FieldLoop_counting_skipped(_, _, _, _)
FieldLoop_counting_skipped(course_data, c, k, acc) ==
  IF k > Len(chunkable_fields) THEN acc
  ELSE LET field == chunkable_fields[k][1]
           label == chunkable_fields[k][2]
           value == course_data[field]
       IN  FieldLoop_counting_skipped(course_data, c, k + 1,
             [chunks |-> IF FieldEmitted(value)
                         THEN Append(acc.chunks,
                                MakeChunk(c, field, label,
                                          label \o ":\n" \o format_field_value(value),
                                          acc.chunk_index))
                         ELSE acc.chunks,
              chunk_index |-> acc.chunk_index + 1])

\* the for loop over chunkable_fields, from field k on
RECURSIVE FieldLoop(_, _, _, _)
FieldLoop(course_data, c, k, acc) ==
  IF k > Len(chunkable_fields) THEN acc
  ELSE LET field == chunkable_fields[k][1]
           label == chunkable_fields[k][2]
           value == course_data[field]
       IN  IF FieldEmitted(value)
           THEN FieldLoop(course_data, c, k + 1,
                  [chunks |-> Append(acc.chunks,
                                MakeChunk(c, field, label,
                                          label \o ":\n" \o format_field_value(value),
                                          acc.chunk_index)),
                   chunk_index |-> acc.chunk_index + 1])
           ELSE FieldLoop(course_data, c, k + 1, acc)

LearningOutcomes(course_data, c, acc) ==
  LET lo == course_data.learning_outcomes
      outcomes_text == OutcomesText(lo.l)
  IN  IF lo.t = "list" /\ lo.l # <<>> /\ outcomes_text # ""
      THEN [chunks |-> Append(acc.chunks,
                         MakeChunk(c, "learning_outcomes", "Learning Outcomes",
                                   "Learning Outcomes:\n" \o outcomes_text, acc.chunk_index)),
            chunk_index |-> acc.chunk_index + 1]
      ELSE acc

Part(cond, text) == IF cond THEN <<text>> ELSE <<>>

course_info_parts(course_data, c) ==
     Part(c.course_name # "", "Course Name: " \o c.course_name)
  \o Part(c.course_code # "", "Course Code: " \o c.course_code)
  \o Part(Truthy(course_data.credit_points),
          "Credit Points: " \o course_data.credit_points.r)
  \o Part(Truthy(course_data.cricos_code) /\ course_data.cricos_code # Str("None"),
          "CRICOS Code: " \o course_data.cricos_code.r)
  \o Part(Truthy(course_data.faculty) /\ CommaJoin(course_data.faculty) # "",
          "Faculty: " \o CommaJoin(course_data.faculty))
  \o Part(Truthy(course_data.study_level),
          "Study Level: " \o course_data.study_level.r)
  \o Part(Truthy(course_data.duration_fulltime),
          "Duration (Full-time): " \o course_data.duration_fulltime.r)
  \o Part(Truthy(course_data.duration_parttime),
          "Duration (Part-time): " \o course_data.duration_parttime.r)
  \o Part(Truthy(course_data.location) /\ CommaJoin(course_data.location) # "",
          "Location: " \o CommaJoin(course_data.location))
  \o Part(Truthy(course_data.awards) /\ CommaJoin(course_data.awards) # "",
          "Awards: " \o CommaJoin(course_data.awards))
  \o Part(Truthy(course_data.overview), "\nOverview:\n" \o course_data.overview.r)

CourseInfo(course_data, c, acc) ==
  IF course_info_parts(course_data, c) # <<>>
  THEN [chunks |-> Append(acc.chunks,
                     MakeChunk(c, "course_info", "Course Information",
                               Join("\n", course_info_parts(course_data, c)),
                               acc.chunk_index)),
        chunk_index |-> acc.chunk_index + 1]
  ELSE acc

\* whether create_chunks_from_course raises on this record
ListRaises(v) == v.t = "list" /\ v.l # <<>> /\ v.l[1].isdict /\ \E i \in 1..Len(v.l) : ~v.l[i].isdict

Raises(course_data) ==
  \/ course_data.course_code.t \notin {"absent", "str"}
  \/ course_data.course_name.t \notin {"absent", "str"}
  \/ \E k \in 1..Len(chunkable_fields) : ListRaises(course_data[chunkable_fields[k][1]])
  \/ /\ course_data.learning_outcomes.t = "list"
     /\ \E i \in 1..Len(course_data.learning_outcomes.l) :
           ~course_data.learning_outcomes.l[i].isdict
  \/ \E f \in {"faculty", "location", "awards"} :
        /\ course_data[f].t = "list"
        /\ \E i \in 1..Len(course_data[f].l) : course_data[f].l[i].isdict

create_chunks_from_course(course_data, filename, clock) ==
  LET c == Locals(course_data, filename, clock)
  IN  CourseInfo(course_data, c,
        LearningOutcomes(course_data, c,
          FieldLoop(course_data, c, 1, [chunks |-> <<>>, chunk_index |-> 0]))).chunks

(***************************************************************************)
(* The course files the ingest run is tried on, in the order sorted() gives *)
(* their names.  Files 2 and 3 are two files of one course: the same course *)
(* code (in different letter case) and the same source URL.                 *)
(***************************************************************************)
RECURSIVE Pad(_, _)
Pad(s, n) == IF Len(s) >= n THEN s ELSE Pad(s \o ".", n)

EmptyRecord ==
  [course_code |-> Absent, course_name |-> Absent, source_url |-> Absent,
   overview |-> Absent, admission_requirements |-> Absent, career_options |-> Absent,
   course_structure |-> Absent, professional_recognition |-> Absent,
   inherent_requirements |-> Absent, structure_notes |-> Absent, notes |-> Absent,
   learning_outcomes |-> Absent, credit_points |-> Absent, cricos_code |-> Absent,
   faculty |-> Absent, study_level |-> Absent, duration_fulltime |-> Absent,
   duration_parttime |-> Absent, location |-> Absent, awards |-> Absent]

SportRecord ==
  [EmptyRecord EXCEPT
     !.course_name = Str("Bachelor of Sport and Exercise Science"),
     !.source_url = Str("https://handbook.uts.edu.au/courses/c10302.html"),
     !.overview = Str(Pad("This course prepares graduates for careers in sport", 60)),
     !.admission_requirements = Str(Pad("Australian Year 12", 49)),
     !.career_options = List(<<Scalar("Exercise scientist"), Scalar(""),
                               Scalar("Strength and conditioning coach"), Scalar("Sport manager")>>),
     !.learning_outcomes = List(<<Outcome("1", "Apply exercise science"), Outcome("2", "")>>),
     !.credit_points = Str("144"),
     !.cricos_code = Str("None"),
     !.faculty = List(<<Scalar("Health")>>)]

Catalogue ==
  << [name |-> "Bachelor_of_Science_C10242.json",
      data |-> [EmptyRecord EXCEPT
                  !.course_code = Str(" C10242 "),
                  !.course_name = Str("TEQSA Category: Australian University"),
                  !.source_url = Str("https://handbook.uts.edu.au/courses/c10242.html"),
                  !.notes = Dict(Pad("{\"intake\": \"Autumn\"", 50) \o "}", "{'intake': 'Autumn'}"),
                  !.structure_notes = Str("   ")]],
     [name |-> "Sport_A_C10302.json", data |-> [SportRecord EXCEPT !.course_code = Str("c10302")]],
     [name |-> "Sport_B_C10302.json", data |-> [SportRecord EXCEPT !.course_code = Str("C10302")]],
     [name |-> "broken.json",
      data |-> [SportRecord EXCEPT !.course_code = Null]],
     [name |-> "misc_None_x.json",
      data |-> [EmptyRecord EXCEPT !.overview = Str(Pad("Short", 49))]] >>

MaxFiles == 2
MaxRuns  == 2
MaxClock == 2

\* json_files = sorted(courses_dir.glob("*.json"))
json_files == SetToSortedSeq(corpus)

(***************************************************************************)
(* ingest_courses.py: main()                                               *)
(***************************************************************************)
\* main() up to the loop: SystemExit when the directory holds no JSON file
IngestStart ==
  /\ ipc = "start"
  /\ runs' = runs + 1
  /\ ipc' = IF json_files = <<>> THEN "fatal" ELSE "loop"
  /\ file_idx' = 0
  /\ all_chunks' = <<>>
  /\ courses_processed' = 0
  /\ courses_skipped' = 0
  /\ UNCHANGED <<corpus, dry_run, now, out_file, history>>
  /\ UNCHANGED notIngest

\* one iteration of "for json_file in json_files", the except clause included
IngestFile ==
  /\ ipc = "loop"
  /\ file_idx < Len(json_files)
  /\ \E clock \in now..(IF now < MaxClock THEN now + 1 ELSE now) :
       LET f      == json_files[file_idx + 1]
           file   == Catalogue[f]
           raised == Raises(file.data)
           chunks == IF raised THEN <<>>
                     ELSE create_chunks_from_course(file.data, file.name, clock)
       IN  /\ now' = clock
           /\ all_chunks' = all_chunks \o chunks
           /\ courses_processed' = courses_processed + (IF chunks # <<>> THEN 1 ELSE 0)
           /\ courses_skipped' = courses_skipped + (IF chunks # <<>> THEN 0 ELSE 1)
           /\ history' = Append(history, [file |-> f, raised |-> raised, chunks |-> chunks])
  /\ file_idx' = file_idx + 1
  /\ UNCHANGED <<corpus, dry_run, ipc, out_file, runs>>
  /\ UNCHANGED notIngest

\* after the loop: the report, then the output file unless --dry_run
IngestWrite ==
  /\ ipc = "loop"
  /\ file_idx = Len(json_files)
  /\ out_file' = IF dry_run THEN out_file ELSE File(all_chunks)
  /\ ipc' = "done"
  /\ UNCHANGED <<corpus, dry_run, now, file_idx, all_chunks, courses_processed,
                 courses_skipped, history, runs>>
  /\ UNCHANGED notIngest

\* the script is run again on the same directory (re-ingestion)
IngestAgain ==
  /\ ipc = "done"
  /\ runs < MaxRuns
  /\ ipc' = "start"
  /\ UNCHANGED <<corpus, dry_run, now, file_idx, all_chunks, courses_processed,
                 courses_skipped, out_file, history, runs>>
  /\ UNCHANGED notIngest

(***************************************************************************)
(* ingest_courses.py: get_course_code and create_chunks_from_course, called *)
(* on one record and one filename                                           *)
(***************************************************************************)
Raised   == "<raised>"
NoChunks == [returned |-> FALSE, raised |-> FALSE, chunks |-> <<>>]

\* get_course_code raises on a course_code that is not a string (null.strip())
CallGetCourseCode ==
  /\ resolved_code = NoReturn
  /\ resolved_code' = IF course_record.course_code.t \notin {"absent", "str"} THEN Raised
                      ELSE get_course_code(course_record, file_name)
  /\ UNCHANGED <<course_record, file_name, made_chunks>>
  /\ UNCHANGED notChunker

CallCreateChunks ==
  /\ ~made_chunks.returned
  /\ made_chunks' =
       [returned |-> TRUE,
        raised   |-> Raises(course_record),
        chunks   |-> IF Raises(course_record) THEN <<>>
                     ELSE create_chunks_from_course(course_record, file_name, 0)]
  /\ UNCHANGED <<course_record, file_name, resolved_code>>
  /\ UNCHANGED notChunker

\* the records and filenames the two functions are tried on: every course_code
\* value with every source URL, and up to MaxSetFields chunkable fields set to
\* values of 49 and 50 characters, with and without learning outcomes
CodeValues ==
  { Absent, Null, Str(""), Str("  "), Str("c10302"), Str(" C10242 "), Str("P12345"),
    Str("C1030"), Str("sport sci") }

UrlValues ==
  { Absent, Str("https://handbook.uts.edu.au/courses/c20060.html"),
    Str("https://handbook.uts.edu.au/c20060.html"),
    Str("https://handbook.uts.edu.au/courses/p12345.html") }

FileNames == {"Sport_C10302.json", "misc_None_x.json"}

FieldValues ==
  { Str(Pad("Forty-nine characters", 49)),
    Str(Pad("Fifty characters", 50)),
    Str("  " \o Pad("Fifty characters with the blanks", 48)),
    List(<<Scalar(Pad("Exercise scientist", 24)), Scalar(""), Scalar(Pad("Coach", 24))>>) }

MaxSetFields == 2

FieldNames == {chunkable_fields[k][1] : k \in 1..Len(chunkable_fields)}

FieldSettings ==
  UNION {[S -> FieldValues] : S \in {T \in SUBSET FieldNames : Cardinality(T) <= MaxSetFields}}

FieldRecord(setting, outcomes) ==
  [f \in DOMAIN EmptyRecord |->
     IF f \in DOMAIN setting THEN setting[f]
     ELSE IF f = "learning_outcomes" THEN outcomes
     ELSE IF f = "course_code" THEN Str("C10302")
     ELSE EmptyRecord[f]]

ChunkerInputs ==
  {[data |-> [EmptyRecord EXCEPT !.course_code = cv, !.source_url = uv], name |-> fn] :
      cv \in CodeValues, uv \in UrlValues, fn \in FileNames}
  \cup
  {[data |-> FieldRecord(setting, outcomes), name |-> "Sport_C10302.json"] :
      setting \in FieldSettings,
      outcomes \in {Absent, List(<<Outcome("1", "Apply exercise science"), Outcome("2", "")>>)}}

(***************************************************************************)
(* A retrieval hit: score is the similarity in hundredths (0.30 is 30), and *)
(* payload the stored chunk meta plus text.  A key the payload lacks holds  *)
(* None.                                                                    *)
(***************************************************************************)
Payload(code, name, label, url, text) ==
  [course_code |-> code, course_name |-> name, chunk_label |-> label,
   source_url |-> url, text |-> text]

Hit(score, payload) == [score |-> score, payload |-> payload]

\* payload.get(key, default)
PGet(payload, key, default) == IF payload[key] = None THEN default ELSE payload[key]

(***************************************************************************)
(* query_hybrid_rag.py: build_course_context                               *)
(***************************************************************************)
DefaultMaxContextLength == 4000

\* a faulty variant: each text is measured against the budget on its own
Fits_ignoring_running_total(length, text, max_length) == Len(text) < max_length

\* a variant that lets the total reach the budget
Fits_up_to_budget(length, text, max_length) == length + Len(text) <= max_length

\* the budget test of the loop
Fits(length, text, max_length) == length + Len(text) < max_length

\* the citation header and the text of one included hit
ContextPart(payload) ==
  LET course_code == PGet(payload, "course_code", "")
      course_name == PGet(payload, "course_name", "")
      chunk_label == PGet(payload, "chunk_label", "")
      source_url  == PGet(payload, "source_url", "")
      cite_parts  ==    Part(course_code # "", "Course Code: " \o course_code)
                     \o Part(course_name # "", "(" \o course_name \o ")")
                     \o Part(chunk_label # "", "- " \o chunk_label)
      cite        == Join(" | ", cite_parts)
                       \o (IF source_url # "" THEN "\nSource: " \o source_url ELSE "")
  IN  "[" \o cite \o "]\n" \o PGet(payload, "text", "")

\* a variant that leaves the loop at the first hit that does not fit
NextHit_break_when_full(i, fits, n) == IF fits THEN i + 1 ELSE n + 1

\* where the for loop goes after visiting hit i of n: there is no break
NextHit(i, fits, n) == i + 1

\* the whole function: the loop from hit i on, then the join
RECURSIVE ContextLoop(_, _, _, _, _)
ContextLoop(hs, max_length, i, length, parts) ==
  IF i > Len(hs) THEN parts
  ELSE LET text == PGet(hs[i].payload, "text", "")
           fits == Fits(length, text, max_length)
       IN  ContextLoop(hs, max_length, NextHit(i, fits, Len(hs)),
                       IF fits THEN length + Len(text) ELSE length,
                       IF fits THEN Append(parts, ContextPart(hs[i].payload)) ELSE parts)

build_course_context(hs, max_length) == Join("\n\n", ContextLoop(hs, max_length, 1, 0, <<>>))

\* one iteration of "for hit in hits"; hit_idx is the position of the hit to visit
CtxVisit ==
  /\ context = NoReturn
  /\ hit_idx <= Len(hits)
  /\ LET text == PGet(hits[hit_idx].payload, "text", "")
         fits == Fits(current_length, text, max_context_length)
     IN  /\ context_parts' = IF fits THEN Append(context_parts, ContextPart(hits[hit_idx].payload))
                             ELSE context_parts
         /\ current_length' = IF fits THEN current_length + Len(text) ELSE current_length
         /\ included' = IF fits THEN Append(included, hit_idx) ELSE included
         /\ hit_idx' = NextHit(hit_idx, fits, Len(hits))
  /\ UNCHANGED <<hits, max_context_length, context>>
  /\ UNCHANGED notCtx

\* return "\n\n".join(context_parts)
CtxReturn ==
  /\ context = NoReturn
  /\ hit_idx > Len(hits)
  /\ context' = Join("\n\n", context_parts)
  /\ UNCHANGED <<hits, max_context_length, hit_idx, current_length, context_parts, included>>
  /\ UNCHANGED notCtx

\* the hits build_course_context is tried on: texts of 0 to 3 characters
CtxSamples ==
  { Hit(90, Payload("C10302", "Sport", "Overview", "u", "a")),
    Hit(50, Payload(None, None, None, None, "bb")),
    Hit(40, Payload("C10242", "", "Notes", "", "ccc")),
    Hit(20, Payload("C10242", "Science", "", "", None)) }

MaxHits   == 3
MaxBudget == 5

\* the sequences over S of length at most n
SeqsUpTo(S, n) == UNION {[1..k -> S] : k \in 0..n}

(***************************************************************************)
(* filtered_retrieval.py: check_result_quality                             *)
(***************************************************************************)
MinResults       == 3
HighQualityScore == 30
DiversityTop     == 3

NoChecks ==
  [returned |-> FALSE, has_results |-> FALSE, min_results |-> FALSE,
   has_high_quality |-> FALSE, diverse_sources |-> FALSE]

\* hits[:n]
Take(hs, n) == SubSeq(hs, 1, IF Len(hs) < n THEN Len(hs) ELSE n)

\* a faulty variant: the course codes of all hits are counted, not of the first three
check_result_quality_all_hits(hs) ==
  [returned         |-> TRUE,
   has_results      |-> Len(hs) > 0,
   min_results      |-> Len(hs) >= MinResults,
   has_high_quality |-> Len(hs) > 0 /\ hs[1].score > HighQualityScore,
   diverse_sources  |-> Len(hs) >= 2 /\
       Cardinality({PGet(hs[i].payload, "course_code", "unknown") : i \in 1..Len(hs)}) > 1]

\* the dict of the four checks
check_result_quality(hs) ==
  [returned         |-> TRUE,
   has_results      |-> Len(hs) > 0,
   min_results      |-> Len(hs) >= MinResults,
   has_high_quality |-> Len(hs) > 0 /\ hs[1].score > HighQualityScore,
   diverse_sources  |-> Len(hs) >= 2 /\
       Cardinality({PGet(Take(hs, DiversityTop)[i].payload, "course_code", "unknown") :
                      i \in 1..Len(Take(hs, DiversityTop))}) > 1]

GateCheck ==
  /\ ~checks.returned
  /\ checks' = check_result_quality(ghits)
  /\ UNCHANGED ghits
  /\ UNCHANGED notGate

\* the hits check_result_quality is tried on
GateSamples ==
  { Hit(90, Payload("C10302", "Sport", "Overview", "u", "a")),
    Hit(50, Payload("C10302", "Sport", "Notes", "u", "b")),
    Hit(50, Payload("C10242", "Science", "Overview", "v", "c")),
    Hit(31, Payload("C10242", "Science", "Notes", "v", "d")),
    Hit(30, Payload("C10302", "Sport", "Career Options", "u", "e")),
    Hit(20, Payload(None, None, None, None, "f")) }

MaxGateHits == 4

(***************************************************************************)
(* retrieve_courses (filtered_retrieval.py and query_hybrid_rag.py) and the *)
(* vector collection's search                                               *)
(***************************************************************************)
\* a stored point: its payload, and sim, the similarity of its vector to the query's
Point(sim, payload) == [sim |-> sim, payload |-> payload]

NoFilter == [must |-> <<>>, none |-> TRUE]

\* qm.FieldCondition(key, match=qm.MatchValue(value)) or match=qm.MatchText(text)
MatchValue(key, value) == [key |-> key, match |-> "value", arg |-> value]
MatchText(key, text)   == [key |-> key, match |-> "text", arg |-> text]

\* a faulty variant: the course code is matched as given, not upper-cased
BuildFilter_no_upper(course_code, course_name) ==
  LET conditions ==
           (IF course_code \notin {None, ""}
            THEN <<MatchValue("course_code", course_code)>> ELSE <<>>)
        \o (IF course_name \notin {None, ""}
            THEN <<MatchText("course_name", course_name)>> ELSE <<>>)
  IN  IF conditions # <<>> THEN [must |-> conditions, none |-> FALSE] ELSE NoFilter

\* the filter built from the two optional arguments ("if course_code:" is false
\* of None and of the empty string)
BuildFilter(course_code, course_name) ==
  LET conditions ==
           (IF course_code \notin {None, ""}
            THEN <<MatchValue("course_code", Upper(course_code))>> ELSE <<>>)
        \o (IF course_name \notin {None, ""}
            THEN <<MatchText("course_name", course_name)>> ELSE <<>>)
  IN  IF conditions # <<>> THEN [must |-> conditions, none |-> FALSE] ELSE NoFilter

\* whether sub occurs in s
Contains(s, sub) == \E i \in 1..(Len(s) + 1) : OccursAt(s, sub, i)

\* the collection's test of one condition: MatchValue is equality with the stored
\* value, MatchText (no full-text index) is a substring test
Satisfies(payload, cond) ==
  /\ payload[cond.key] # None
  /\ IF cond.match = "value" THEN payload[cond.key] = cond.arg
     ELSE Contains(payload[cond.key], cond.arg)

\* Filter(must=conditions): every condition holds
Passes(payload, flt) == \A k \in 1..Len(flt.must) : Satisfies(payload, flt.must[k])

\* a stable sort by descending score
RECURSIVE SortByScore(_)
SortByScore(hs) ==
  IF hs = <<>> THEN <<>>
  ELSE LET best == CHOOSE i \in 1..Len(hs) :
                     /\ \A j \in 1..Len(hs) : hs[j].score <= hs[i].score
                     /\ \A j \in 1..(i - 1) : hs[j].score < hs[i].score
       IN  <<hs[best]>> \o SortByScore(SubSeq(hs, 1, best - 1) \o SubSeq(hs, best + 1, Len(hs)))

\* cli.search(query_vector, query_filter, limit, with_payload=True): the points that
\* pass the filter, by descending similarity, at most limit of them
Search(points, flt, limit) ==
  LET passing == SelectSeq(points, LAMBDA p : Passes(p.payload, flt))
      scored  == [i \in 1..Len(passing) |-> Hit(passing[i].sim, passing[i].payload)]
  IN  Take(SortByScore(scored), limit)

NoHits == [returned |-> FALSE, hits |-> <<>>]
NotSent == [sent |-> FALSE, flt |-> NoFilter]

\* filtered_retrieval.retrieve_courses: search, then hits.sort by score
RetrieveFiltered ==
  /\ rvariant = "filtered_retrieval"
  /\ ~rhits.returned
  /\ rflt' = [sent |-> TRUE, flt |-> BuildFilter(rcourse_code, rcourse_name)]
  /\ rhits' = [returned |-> TRUE,
               hits |-> SortByScore(Search(collection,
                                           BuildFilter(rcourse_code, rcourse_name), rlimit))]
  /\ UNCHANGED <<collection, rvariant, rcourse_code, rcourse_name, rlimit>>
  /\ UNCHANGED notRet

\* query_hybrid_rag.retrieve_courses
RetrieveHybrid ==
  /\ rvariant = "query_hybrid_rag"
  /\ ~rhits.returned
  /\ rflt' = [sent |-> TRUE, flt |-> BuildFilter(rcourse_code, rcourse_name)]
  /\ rhits' = [returned |-> TRUE,
               hits |-> Search(collection, BuildFilter(rcourse_code, rcourse_name), rlimit)]
  /\ UNCHANGED <<collection, rvariant, rcourse_code, rcourse_name, rlimit>>
  /\ UNCHANGED notRet

\* the points the collection can hold; the fourth was stored with a lower-case code
SamplePoints ==
  << Point(50, Payload("C10302", "Bachelor of Sport and Exercise Science", "Overview",
                       "https://handbook.uts.edu.au/courses/c10302.html", "Overview:\nSport")),
     Point(25, Payload("C10302", "Bachelor of Sport and Exercise Science", "Course Information",
                       "https://handbook.uts.edu.au/courses/c10302.html", "Course Name: Sport")),
     Point(28, Payload("C10242", "Bachelor of Science", "Notes",
                       "https://handbook.uts.edu.au/courses/c10242.html", "Notes:\nScience")),
     Point(90, Payload("c10302", "Diploma of sport", "Overview", "", "Overview:\nDiploma")) >>

\* the collections: the sample points a set of positions selects, in their order
Collections == {[i \in 1..Len(SetToSortedSeq(S)) |-> SamplePoints[SetToSortedSeq(S)[i]]] :
                  S \in SUBSET (1..Len(SamplePoints))}

MaxLimit == 3

(***************************************************************************)
(* api_server.py: chat, with query_with_full_pipeline (the primary path)    *)
(* and query_courses (the fallback path, and the direct path when           *)
(* use_preprocessing is off)                                                *)
(***************************************************************************)
DEFAULT_K    == 30
DEFAULT_TOPN == 8
FilteredRetrievalLimit == 30

NoInformationFound == "No relevant course information found."
CouldNotGenerate   == "I couldn't generate a response. Please try rephrasing your question."
Apology            == "Sorry, there was an error processing your request. Please try again."

WordChars == {Ch(LowerAlpha, i) : i \in 1..26} \cup {Ch(UpperAlpha, i) : i \in 1..26}
               \cup Digits \cup {"_"}

\* re.findall(r'\b[Cc]\d{5}\b', text): the first match, uppercased
extract_course_code_from_text(text) ==
  LET P == {i \in 1..Len(text) : /\ Ch(text, i) \in {"c", "C"}
                                 /\ DigitsAt(text, i + 1, 5)
                                 /\ (i = 1 \/ Ch(text, i - 1) \notin WordChars)
                                 /\ (i + 6 > Len(text) \/ Ch(text, i + 6) \notin WordChars)}
      i == CHOOSE k \in P : \A j \in P : k <= j
  IN  IF P = {} THEN None ELSE Upper(SubSeq(text, i, i + 5))

\* the loop over the history: the code of the first user message that holds one
RECURSIVE FromHistory(_)
FromHistory(history_) ==
  IF history_ = <<>> THEN None
  ELSE IF history_[1].type = "user" /\ extract_course_code_from_text(history_[1].text) # None
       THEN extract_course_code_from_text(history_[1].text)
       ELSE FromHistory(Tail(history_))

\* final_course_code = request.course_code or extracted_course_code
FinalCourseCode(req) ==
  IF req.course_code \notin {None, ""} THEN req.course_code
  ELSE IF extract_course_code_from_text(Strip(req.message)) # None
       THEN extract_course_code_from_text(Strip(req.message))
       ELSE FromHistory(req.history)

\* one call of query_with_full_pipeline ("primary") or query_courses ("fallback",
\* "direct") with its arguments, and what it has done so far
PathCall(path, course_code, course_name) ==
  [path |-> path, course_code |-> course_code, course_name |-> course_name,
   generate |-> TRUE, topn |-> DEFAULT_TOPN,
   retrieved |-> FALSE, hits |-> <<>>, quality |-> NoChecks,
   context_calls |-> 0, generate_calls |-> 0, generation |-> "none",
   outcome |-> "running", text |-> None]

Last(seq) == seq[Len(seq)]
SetLast(seq, x) == [seq EXCEPT ![Len(seq)] = x]

NoResult == [kind |-> "none", response |-> None, success |-> FALSE, status |-> 0]

\* chat() up to the call of the pipeline
ChatStart ==
  /\ cpc = "start"
  /\ IF Strip(request.message) = ""
     THEN /\ chat_result' = [kind |-> "http_error", response |-> None, success |-> FALSE,
                             status |-> 400]
          /\ cpc' = "done"
          /\ UNCHANGED <<final_course_code, paths>>
     ELSE /\ final_course_code' = FinalCourseCode(request)
          /\ paths' = <<PathCall(IF request.use_preprocessing THEN "primary" ELSE "direct",
                                 FinalCourseCode(request), request.course_name)>>
          /\ cpc' = IF request.use_preprocessing THEN "primary" ELSE "hybrid"
          /\ UNCHANGED chat_result
  /\ UNCHANGED <<request, response_text>>
  /\ UNCHANGED notChat

\* a faulty variant: a low first score ends the pipeline as well
ProceedsToGeneration_when_high_quality(quality) ==
  quality.has_results /\ quality.has_high_quality

\* the test of line 61: without it the pipeline ends with the fixed text
ProceedsToGeneration(quality) == quality.has_results

\* query_with_full_pipeline up to step 3: query_with_filtering (retrieve_courses of
\* filtered_retrieval.py, limit 30), then the quality checks
PrimaryRetrieve ==
  /\ cpc = "primary"
  /\ LET call    == Last(paths)
         found   == SortByScore(Search(collection,
                                       BuildFilter(call.course_code, call.course_name),
                                       FilteredRetrievalLimit))
         quality == check_result_quality(found)
         got     == [call EXCEPT !.retrieved = TRUE, !.hits = found, !.quality = quality]
     IN  IF ProceedsToGeneration(quality)
         THEN /\ paths' = SetLast(paths, got)
              /\ cpc' = "primary_generate"
              /\ UNCHANGED response_text
         ELSE /\ paths' = SetLast(paths, [got EXCEPT !.outcome = "returned",
                                                     !.text = NoInformationFound])
              /\ response_text' = NoInformationFound
              /\ cpc' = "respond"
  /\ UNCHANGED <<request, final_course_code, chat_result>>
  /\ UNCHANGED notChat

\* the embedding model or the vector collection fails: query_with_full_pipeline
\* raises, and chat's except clause calls query_courses
PrimaryRaises ==
  /\ cpc = "primary"
  /\ paths' = Append(SetLast(paths, [Last(paths) EXCEPT !.outcome = "raised"]),
                     PathCall("fallback", final_course_code, request.course_name))
  /\ cpc' = "hybrid"
  /\ UNCHANGED <<request, final_course_code, response_text, chat_result>>
  /\ UNCHANGED notChat

\* what the generation service does with the request of answer_with_ollama: it
\* answers (the content may be empty or blank), or the call fails by the timeout
\* of 180 s, an unreachable service or an HTTP error status
Replied(content) == [ok |-> TRUE, said |-> content]
Failed(error)    == [ok |-> FALSE, said |-> error]

GenerationOutcomes ==
  { Replied("C10302 is the Bachelor of Sport and Exercise Science [Course Code: C10302]."),
    Replied(""), Replied("  "),
    Failed("timed out"), Failed("connection refused"), Failed("500 Server Error") }

\* answer_with_ollama: the content of the reply, or the text its except clause
\* makes of the error
answer_with_ollama(service) ==
  IF service.ok THEN service.said ELSE "Error generating response: " \o service.said

\* what answer_with_ollama can return
Answers == {answer_with_ollama(service) : service \in GenerationOutcomes}

\* step 3 of either path: build_course_context, then answer_with_ollama, whose
\* result is returned whether the call failed or not
Generate ==
  /\ cpc \in {"primary_generate", "hybrid_generate"}
  /\ \E service \in GenerationOutcomes :
       /\ paths' = SetLast(paths, [Last(paths) EXCEPT
                      !.context_calls = @ + 1, !.generate_calls = @ + 1,
                      !.generation = IF service.ok THEN "replied" ELSE "failed",
                      !.outcome = "returned", !.text = answer_with_ollama(service)])
       /\ response_text' = answer_with_ollama(service)
  /\ cpc' = "respond"
  /\ UNCHANGED <<request, final_course_code, chat_result>>
  /\ UNCHANGED notChat

\* query_courses up to the generation: retrieve_courses of query_hybrid_rag.py
HybridRetrieve ==
  /\ cpc = "hybrid"
  /\ LET call  == Last(paths)
         found == Search(collection, BuildFilter(call.course_code, call.course_name),
                         DEFAULT_K)
         got   == [call EXCEPT !.retrieved = TRUE, !.hits = found]
     IN  IF found # <<>>
         THEN /\ paths' = SetLast(paths, got)
              /\ cpc' = "hybrid_generate"
              /\ UNCHANGED response_text
         ELSE /\ paths' = SetLast(paths, [got EXCEPT !.outcome = "returned",
                                                     !.text = NoInformationFound])
              /\ response_text' = NoInformationFound
              /\ cpc' = "respond"
  /\ UNCHANGED <<request, final_course_code, chat_result>>
  /\ UNCHANGED notChat

\* a faulty variant: the exception of query_courses leaves chat
HybridRaises_propagating ==
  /\ cpc = "hybrid"
  /\ paths' = SetLast(paths, [Last(paths) EXCEPT !.outcome = "raised"])
  /\ chat_result' = [kind |-> "exception", response |-> None, success |-> FALSE,
                     status |-> 500]
  /\ cpc' = "done"
  /\ UNCHANGED <<request, final_course_code, response_text>>
  /\ UNCHANGED notChat

\* query_courses raises: chat's outer except clause answers with the apology
HybridRaises ==
  /\ cpc = "hybrid"
  /\ paths' = SetLast(paths, [Last(paths) EXCEPT !.outcome = "raised"])
  /\ chat_result' = [kind |-> "response", response |-> Apology, success |-> FALSE,
                     status |-> 200]
  /\ cpc' = "done"
  /\ UNCHANGED <<request, final_course_code, response_text>>
  /\ UNCHANGED notChat

\* a faulty variant: an empty answer is passed on as it is
IsBlank_never(text) == FALSE

\* a faulty variant: only the empty string is replaced
IsBlank_only_empty(text) == text = None \/ text = ""

\* whether chat replaces the text: "not response_text or response_text.strip() == ''"
IsBlank(text) == text = None \/ Strip(text) = ""

\* the end of chat(): the substitute for an empty answer, then the ChatResponse
ChatRespond ==
  /\ cpc = "respond"
  /\ chat_result' = [kind |-> "response",
                     response |-> IF IsBlank(response_text) THEN CouldNotGenerate
                                  ELSE response_text,
                     success |-> TRUE, status |-> 200]
  /\ cpc' = "done"
  /\ UNCHANGED <<request, final_course_code, paths, response_text>>
  /\ UNCHANGED notChat

\* the requests chat is tried on
Messages == {"   ", "what is c10302 about", "entry requirements"}
Histories ==
  { <<>>,
    << [type |-> "bot", text |-> "See C10242"],
       [type |-> "user", text |-> "tell me about C10302."] >> }

Requests ==
  [message : Messages, course_code : {None, "c10242"}, course_name : {None, "Sport"},
   history : Histories, concise : BOOLEAN, use_preprocessing : BOOLEAN]

(***************************************************************************)
(* query_with_full_pipeline and query_courses from the retrieved hits on:    *)
(* the display of the top hits, the context, the generation                  *)
(***************************************************************************)
\* hits[:topn]
Shown(hs, topn) ==
  IF topn >= 0 THEN Take(hs, topn)
  ELSE SubSeq(hs, 1, IF Len(hs) + topn > 0 THEN Len(hs) + topn ELSE 0)

\* a faulty variant: the context is built from the displayed hits
ContextHits_displayed_only(hs, topn) == Shown(hs, topn)

\* the hits handed to build_course_context
ContextHits(hs, topn) == hs

\* the generation service, fixed: its reply is a function of the prompt, and the
\* prompt of a query is a function of the context
FixedService(prompt_context) == Replied("Answer from: " \o prompt_context)

\* either function, from its hits on: the fixed text without hits, else the
\* answer generated from the context
QueryResult(func, hs, topn) ==
  IF hs = <<>> THEN NoInformationFound
  ELSE answer_with_ollama(
         FixedService(build_course_context(ContextHits(hs, topn), DefaultMaxContextLength)))

NoAnswer == [returned |-> FALSE, text |-> None]

CallQuery ==
  /\ ~q_answer.returned
  /\ q_shown' = IF q_hits = <<>> THEN <<>> ELSE Shown(q_hits, q_topn)
  /\ q_answer' = [returned |-> TRUE, text |-> QueryResult(q_func, q_hits, q_topn)]
  /\ UNCHANGED <<q_func, q_hits, q_topn>>
  /\ UNCHANGED notQuery

\* the values of topn the functions are tried with
MaxTopn == 3
TopNs == (-1)..MaxTopn

(***************************************************************************)
(* save_kb_files.py: looks_junky, load_jsonl and main                       *)
(***************************************************************************)
MinJunkLen == 40

\* a regular expression as a sequence of tokens: words to choose from (compared
\* ignoring case), or a repetition of a character class, at least min times
Words(ws)     == [kind |-> "words", words |-> ws, cls |-> {}, min |-> 0]
Rep(cls, min) == [kind |-> "rep", words |-> {}, cls |-> cls, min |-> min]

\* word w (in lower case) stands in s at position i, whatever the case of s
WordAt(s, w, i) ==
  /\ i + Len(w) - 1 <= Len(s)
  /\ \A k \in 1..Len(w) : LowerCh(Ch(s, i + k - 1)) = Ch(w, k)

\* pattern matches s from position i to its end
RECURSIVE MatchFrom(_, _, _)
MatchFrom(s, i, pattern) ==
  IF pattern = <<>> THEN i = Len(s) + 1
  ELSE LET tk == Head(pattern)
       IN  IF tk.kind = "words"
           THEN \E w \in tk.words :
                  WordAt(s, w, i) /\ MatchFrom(s, i + Len(w), Tail(pattern))
           ELSE \E n \in tk.min..(Len(s) - i + 1) :
                  /\ \A k \in i..(i + n - 1) : Ch(s, k) \in tk.cls
                  /\ MatchFrom(s, i + n, Tail(pattern))

\* ^\s*this page has been left intentionally blank\.?\s*$  (re.I)
JUNK_INTENT_BLANK ==
  << Rep(Whitespace, 0), Words({"this page has been left intentionally blank"}),
     Words({".", ""}), Rep(Whitespace, 0) >>

\* ^\s*page\s*\w*\s*\d+\s*(of|/)\s*\w*\s*\d+\s*$  (re.I)
JUNK_PAGE_FOOTER ==
  << Rep(Whitespace, 0), Words({"page"}), Rep(Whitespace, 0), Rep(WordChars, 0),
     Rep(Whitespace, 0), Rep(Digits, 1), Rep(Whitespace, 0), Words({"of", "/"}),
     Rep(Whitespace, 0), Rep(WordChars, 0), Rep(Whitespace, 0), Rep(Digits, 1),
     Rep(Whitespace, 0) >>

\* sum(ch.isdigit() for ch in t)
DigitCount(t) == Cardinality({i \in 1..Len(t) : Ch(t, i) \in Digits})

\* a faulty variant: the two thresholds count as junk themselves
looks_junky_at_the_thresholds(text) ==
  LET t == Strip(IF text = None THEN "" ELSE text)
  IN  \/ t = ""
      \/ Len(t) <= MinJunkLen
      \/ MatchFrom(t, 1, JUNK_INTENT_BLANK)
      \/ MatchFrom(t, 1, JUNK_PAGE_FOOTER)
      \/ 2 * DigitCount(t) >= Len(t)

looks_junky(text) ==
  LET t == Strip(IF text = None THEN "" ELSE text)
  IN  \/ t = ""
      \/ Len(t) < MinJunkLen
      \/ MatchFrom(t, 1, JUNK_INTENT_BLANK)
      \/ MatchFrom(t, 1, JUNK_PAGE_FOOTER)
      \/ 2 * DigitCount(t) > Len(t)

\* a line of the input: blank, or a JSON object whose id and text are None when
\* the key is absent or null, and whose meta has a page_start and a page_end that
\* are Missing when meta has no such key (given: the object has a meta object)
Missing == "<missing>"
Meta(given, page_start, page_end) ==
  [given |-> given, page_start |-> page_start, page_end |-> page_end]
Row(id, text, meta) == [blank |-> FALSE, id |-> id, text |-> text, meta |-> meta]
BlankLine == [blank |-> TRUE, id |-> None, text |-> None, meta |-> Meta(FALSE, Missing, Missing)]

\* lines 123-126: meta = rec.get("meta", {}) or {}; page_end from page_start
CompleteMeta(meta) ==
  Meta(TRUE, meta.page_start,
       IF meta.page_end # Missing THEN meta.page_end
       ELSE IF meta.page_start = Missing THEN None ELSE meta.page_start)

\* a faulty variant: the junk filter is left out
RECURSIVE load_jsonl_keep_junk(_)
load_jsonl_keep_junk(lines) ==
  IF lines = <<>> THEN <<>>
  ELSE LET rec == Head(lines)
       IN  IF rec.blank THEN load_jsonl_keep_junk(Tail(lines))
           ELSE <<[rec EXCEPT !.meta = CompleteMeta(rec.meta)]>>
                  \o load_jsonl_keep_junk(Tail(lines))

\* the rows load_jsonl yields
RECURSIVE load_jsonl(_)
load_jsonl(lines) ==
  IF lines = <<>> THEN <<>>
  ELSE LET rec == Head(lines)
       IN  IF rec.blank \/ looks_junky(rec.text) THEN load_jsonl(Tail(lines))
           ELSE <<[rec EXCEPT !.meta = CompleteMeta(rec.meta)]>> \o load_jsonl(Tail(lines))

\* model.encode of one text: the vector is a function of the text alone
Embed(text) == [embedding_of |-> text]

NotEncoded == [returned |-> FALSE, rows |-> <<>>]

\* what model.encode(texts) can hand back: one row per text, or (the case the
\* sanity check of line 176 is there for) a row short or a row too many
Encodings(texts) ==
  LET full == [i \in 1..Len(texts) |-> Embed(texts[i])]
  IN  {full, SubSeq(full, 1, Len(full) - 1), Append(full, Embed(""))}

\* a faulty variant: duplicates go unnoticed
DuplicateIds_never(id_list) == FALSE

\* len(set(ids)) != len(ids)
DuplicateIds(id_list) == Cardinality({id_list[i] : i \in 1..Len(id_list)}) # Len(id_list)

ExitNoRows      == "No rows after filtering; check your chunks.jsonl or filters."
ExitMissingId   == "Some rows are missing 'id'. Did ingest write UUIDs?"
ExitDuplicateId == "Duplicate ids detected in JSONL. UUIDv5 should be unique per chunk."
ExitMismatch    == "Embeddings rows != payload rows"
Fatal == {ExitNoRows, ExitMissingId, ExitDuplicateId, ExitMismatch}

\* main, step 1: load and filter
WriterLoad ==
  /\ wpc = "load"
  /\ rows' = load_jsonl(jsonl)
  /\ IF rows' = <<>> THEN wexit' = ExitNoRows /\ wpc' = "done"
                     ELSE wexit' = wexit /\ wpc' = "ids"
  /\ UNCHANGED <<jsonl, ids, vecs, emb_file, pay_file, man_file>>
  /\ UNCHANGED notWriter

\* main: the integrity checks on the ids
WriterCheckIds ==
  /\ wpc = "ids"
  /\ ids' = [i \in 1..Len(rows) |-> rows[i].id]
  /\ IF \E i \in 1..Len(rows) : ids'[i] = None
     THEN wexit' = ExitMissingId /\ wpc' = "done"
     ELSE IF DuplicateIds(ids')
          THEN wexit' = ExitDuplicateId /\ wpc' = "done"
          ELSE wexit' = wexit /\ wpc' = "embed"
  /\ UNCHANGED <<jsonl, rows, vecs, emb_file, pay_file, man_file>>
  /\ UNCHANGED notWriter

\* main, steps 2 and 3: embed the texts, then the row-count check
WriterEmbed ==
  /\ wpc = "embed"
  /\ \E encoded \in Encodings([i \in 1..Len(rows) |-> rows[i].text]) :
       /\ vecs' = [returned |-> TRUE, rows |-> encoded]
       /\ IF Len(encoded) # Len(rows)
          THEN wexit' = ExitMismatch /\ wpc' = "done"
          ELSE wexit' = wexit /\ wpc' = "save"
  /\ UNCHANGED <<jsonl, rows, ids, emb_file, pay_file, man_file>>
  /\ UNCHANGED notWriter

\* main, steps 4 and 5: embeddings.npy, payloads.jsonl, manifest.json
WriterSave ==
  /\ wpc = "save"
  /\ emb_file' = File(vecs.rows)
  /\ pay_file' = File(rows)
  /\ man_file' = File(<<[n_points |-> Len(vecs.rows)]>>)
  /\ wexit' = "ok"
  /\ wpc' = "done"
  /\ UNCHANGED <<jsonl, rows, ids, vecs>>
  /\ UNCHANGED notWriter

\* the input lines the writer is tried on
GoodTextA  == "Overview: The Bachelor of Sport and Exercise Science."
GoodTextB  == "  Course Information: Course Code: C10242, Credit Points: 144  "
HalfDigits == "12345678901234567890 credit points total"

SampleLines ==
  { Row("id-a", GoodTextA, Meta(FALSE, Missing, Missing)),
    Row("id-b", GoodTextB, Meta(TRUE, "3", Missing)),
    Row("id-a", HalfDigits, Meta(TRUE, "3", "4")),
    Row(None, GoodTextB, Meta(TRUE, Missing, Missing)),
    BlankLine,
    Row("id-c", None, Meta(FALSE, Missing, Missing)),
    Row(None, "Course Name: Sport", Meta(FALSE, Missing, Missing)),
    Row("id-b", " This Page has been left intentionally BLANK. ", Meta(TRUE, "7", "7")),
    Row("id-a", "Page   handbook_section   12   of   volume   340", Meta(TRUE, "8", "8")),
    Row("id-b", "123456789012345678901 credit points total", Meta(TRUE, "9", "9")) }

MaxLines == 3

(***************************************************************************)
(* upsert_to_qdrant_from_files.py: load_payloads and the script             *)
(***************************************************************************)
\* the "id" of a row of payloads.jsonl: a string, a number, or none (absent, null)
StrId(x) == [t |-> "str", s |-> x, n |-> 0]
IntId(x) == [t |-> "int", s |-> "", n |-> x]
NoId     == [t |-> "none", s |-> "", n |-> 0]

PayloadRow(rid, text, meta) == [blank |-> FALSE, id |-> rid, text |-> text, meta |-> meta]
BlankRow == [blank |-> TRUE, id |-> NoId, text |-> "", meta |-> [chunk_label |-> ""]]

\* a faulty variant: no row is taken to lack an id
FalsyId_never(rid) == FALSE

\* "not rid"
FalsyId(rid) ==
  \/ rid.t = "none"
  \/ rid.t = "str" /\ rid.s = ""
  \/ rid.t = "int" /\ rid.n = 0

\* lines 67-71: a string id is replaced by the index of its line, from 0
QdrantId(rid, i) == IF rid.t = "str" THEN i ELSE rid.n

\* r.get("meta", {}) | {"text": r.get("text", ""), "row_id": rid}
PointPayload(r) == [meta |-> r.meta, text |-> r.text, row_id |-> r.id]

ExitRowMissingId == "Row missing 'id' in payloads.jsonl"
ExitDuplicateIds == "Duplicate ids found in payloads.jsonl"
ExitEmbMismatch  == "Emb rows != payload rows"

\* the loop of load_payloads from line i (counted from 1) on
RECURSIVE LoadFrom(_, _, _, _)
LoadFrom(lines, i, id_list, payload_list) ==
  IF i > Len(lines)
  THEN [exit |-> "", ids |-> id_list, payloads |-> payload_list]
  ELSE IF lines[i].blank THEN LoadFrom(lines, i + 1, id_list, payload_list)
  ELSE IF FalsyId(lines[i].id)
       THEN [exit |-> ExitRowMissingId, ids |-> id_list, payloads |-> payload_list]
       ELSE LoadFrom(lines, i + 1, Append(id_list, QdrantId(lines[i].id, i - 1)),
                     Append(payload_list, PointPayload(lines[i])))

load_payloads(lines) ==
  LET got == LoadFrom(lines, 1, <<>>, <<>>)
  IN  IF got.exit = "" /\ Cardinality({got.ids[k] : k \in 1..Len(got.ids)}) # Len(got.ids)
      THEN [got EXCEPT !.exit = ExitDuplicateIds]
      ELSE got

\* the collection on the server: whether it exists, and its points by point id
NoCollection == [exists |-> FALSE, points |-> <<>>]

\* a variant that keeps the points of the collection it recreates
recreate_collection_keeping_points(store) == [exists |-> TRUE, points |-> store.points]

\* cli.recreate_collection: the collection is dropped if there, and created empty
recreate_collection(store) == [exists |-> TRUE, points |-> <<>>]

\* cli.create_collection
create_collection(store) == [exists |-> TRUE, points |-> <<>>]

\* cli.upsert of a qm.Batch: a point is written under its id, replacing what was
\* there under that id
upsert(store, id_list, vectors, payload_list) ==
  LET new == {id_list[k] : k \in 1..Len(id_list)}
      at(key) == CHOOSE k \in 1..Len(id_list) : id_list[k] = key
  IN  [store EXCEPT !.points =
         [key \in (DOMAIN store.points) \cup new |->
            IF key \in new
            THEN [vector |-> vectors[at(key)], payload |-> payload_list[at(key)]]
            ELSE store.points[key]]]

\* seq[i:i+B], i counted from 0
Slice(seq, i, B) == SubSeq(seq, i + 1, IF i + B < Len(seq) THEN i + B ELSE Len(seq))

\* a faulty variant: a last batch of fewer than B rows is not sent
RECURSIVE UpsertLoop_dropping_short_batch(_, _, _, _, _, _)
UpsertLoop_dropping_short_batch(acc, id_list, vectors, payload_list, B, i) ==
  IF i + B > Len(id_list) THEN acc
  ELSE UpsertLoop_dropping_short_batch(
         [store |-> upsert(acc.store, Slice(id_list, i, B), Slice(vectors, i, B),
                           Slice(payload_list, i, B)),
          calls |-> Append(acc.calls, Slice(id_list, i, B))],
         id_list, vectors, payload_list, B, i + B)

\* for i in range(0, len(ids), B): cli.upsert(ids[i:i+B], vecs[i:i+B],
\* payloads[i:i+B]); acc holds the collection and the id lists sent so far
RECURSIVE UpsertLoop(_, _, _, _, _, _)
UpsertLoop(acc, id_list, vectors, payload_list, B, i) ==
  IF i >= Len(id_list) THEN acc
  ELSE UpsertLoop(
         [store |-> upsert(acc.store, Slice(id_list, i, B), Slice(vectors, i, B),
                           Slice(payload_list, i, B)),
          calls |-> Append(acc.calls, Slice(id_list, i, B))],
         id_list, vectors, payload_list, B, i + B)

\* --batch, by default
DefaultBatch == 64

\* the rows of a payloads file that are not blank lines
RowsOf(lines) == SelectSeq(lines, LAMBDA r : ~r.blank)

\* the lines payloads.jsonl can hold, and the embeddings that go with a file: one
\* vector per row, or one row more than that
SampleRows ==
  { PayloadRow(StrId("id-a"), "Overview of Sport", [chunk_label |-> "Overview"]),
    PayloadRow(StrId("id-b"), "Notes on Science", [chunk_label |-> "Notes"]),
    PayloadRow(IntId(1), "Career options", [chunk_label |-> "Career Options"]),
    PayloadRow(NoId, "No id", [chunk_label |-> "Notes"]),
    BlankRow }

MaxRows == 2

EmbeddingsOf(lines) ==
  LET full == [k \in 1..Len(RowsOf(lines)) |-> Embed(RowsOf(lines)[k].text)]
  IN  {full, Append(full, Embed(""))}

UniqueChunkIds(lines) ==
  \A j, k \in 1..Len(RowsOf(lines)) : j # k => RowsOf(lines)[j].id # RowsOf(lines)[k].id

\* the payloads files: up to MaxRows lines, where a blank line, if there is one,
\* is the first line and so shifts the line index of every row
PayloadFiles ==
  {lines \in SeqsUpTo(SampleRows, MaxRows) : \A k \in 2..Len(lines) : ~lines[k].blank}

\* the script is started on a payloads file and an embeddings file
UpsertStart ==
  /\ upc = "start"
  /\ \E lines \in PayloadFiles :
       /\ payloads_file' = lines
       /\ emb_rows' \in EmbeddingsOf(lines)
       /\ all_unique' = (all_unique /\ UniqueChunkIds(lines))
  /\ no_recreate' \in BOOLEAN
  /\ upc' = "load"
  /\ uexit' = "running"
  /\ uids' = <<>>
  /\ upayloads' = <<>>
  /\ ops' = <<>>
  /\ qdrant_before' = qdrant
  /\ UNCHANGED qdrant
  /\ UNCHANGED notUpsert

\* lines 95-101: load the two files and compare their row counts
UpsertLoad ==
  /\ upc = "load"
  /\ LET got == load_payloads(payloads_file)
     IN  IF got.exit # ""
         THEN uexit' = got.exit /\ upc' = "start" /\ UNCHANGED <<uids, upayloads>>
         ELSE IF Len(emb_rows) # Len(got.ids)
         THEN uexit' = ExitEmbMismatch /\ upc' = "start" /\ UNCHANGED <<uids, upayloads>>
         ELSE uexit' = uexit /\ upc' = "collection" /\ uids' = got.ids
                /\ upayloads' = got.payloads
  /\ UNCHANGED <<payloads_file, emb_rows, no_recreate, qdrant, qdrant_before, ops,
                 all_unique>>
  /\ UNCHANGED notUpsert

\* lines 110-122: create the collection if absent (incremental), or recreate it
UpsertCollection ==
  /\ upc = "collection"
  /\ IF no_recreate
     THEN IF qdrant.exists
          THEN UNCHANGED <<qdrant, ops>>
          ELSE qdrant' = create_collection(qdrant) /\ ops' = Append(ops, "create")
     ELSE qdrant' = recreate_collection(qdrant) /\ ops' = Append(ops, "recreate")
  /\ upc' = "upsert"
  /\ UNCHANGED <<payloads_file, emb_rows, no_recreate, uids, upayloads, uexit,
                 qdrant_before, all_unique>>
  /\ UNCHANGED notUpsert

\* lines 125-136: the upsert loop to its end, with the default batch size
UpsertPoints ==
  /\ upc = "upsert"
  /\ LET done == UpsertLoop([store |-> qdrant, calls |-> <<>>], uids, emb_rows, upayloads,
                            DefaultBatch, 0)
     IN  /\ qdrant' = done.store
         /\ ops' = ops \o [k \in 1..Len(done.calls) |-> "upsert"]
  /\ uexit' = "ok"
  /\ upc' = "start"
  /\ UNCHANGED <<payloads_file, emb_rows, no_recreate, uids, upayloads, qdrant_before,
                 all_unique>>
  /\ UNCHANGED notUpsert

(***************************************************************************)
(* save_kb_files.py: looks_junky called on one text                         *)
(***************************************************************************)
NoVerdict == [returned |-> FALSE, junky |-> FALSE]

CallLooksJunky ==
  /\ ~junk_verdict.returned
  /\ junk_verdict' = [returned |-> TRUE, junky |-> looks_junky(junk_text)]
  /\ UNCHANGED junk_text
  /\ UNCHANGED notJunk

\* the texts looks_junky is tried on: digits followed by letters, of a length
\* within MaxSlack of the minimum and with about half of it digits, bare or
\* between blanks; and lines that are, or nearly are, the two boilerplate lines
Sevens  == "77777777777777777777777777777777777777777777777777"
Letters == "overviewofthecoursestructureandadmissionrequirements"

MaxSlack == 2

Mixed(n, d) == SubSeq(Sevens, 1, d) \o SubSeq(Letters, 1, n - d)

MixedTexts ==
  UNION {{lead \o Mixed(n, d) \o trail :
            d \in {0, (n \div 2) - 1, n \div 2, (n \div 2) + 1, n} \cap (0..n),
            lead \in {"", "  "}, trail \in {"", " \n"}} :
         n \in {0, 1} \cup ((MinJunkLen - MaxSlack)..(MinJunkLen + MaxSlack))}

BoilerplateTexts ==
  { "this page has been left intentionally blank",
    "This Page Has Been Left Intentionally Blank.",
    "  this page has been left intentionally blank.  ",
    "this page has been left intentionally blank!",
    "this page has been left intentionally blank. See overleaf",
    "Page   handbook_section   12   of   volume   340",
    "page   handbook_section   12   /   volume   340",
    "see page   handbook_section   12   of   volume   340",
    "page   handbook_section   12   of   volume   34x",
    "page 12 of 340",
    None }

JunkTexts == MixedTexts \cup BoilerplateTexts

(***************************************************************************)
(* upsert_to_qdrant_from_files.py: the upsert loop on its own, for every     *)
(* batch size                                                               *)
(***************************************************************************)
\* the vector and the payload that go with a point id in the two files
VectorFor(id)  == Embed("row " \o IntStr(id))
PayloadFor(id) == [meta |-> [chunk_label |-> "Notes"], text |-> "row " \o IntStr(id),
                   row_id |-> IntId(id)]

NotLooped == [returned |-> FALSE, store |-> NoCollection, calls |-> <<>>]

CallUpsertLoop ==
  /\ ~b_done.returned
  /\ LET done == UpsertLoop([store |-> b_store, calls |-> <<>>], b_ids,
                            [k \in 1..Len(b_ids) |-> VectorFor(b_ids[k])],
                            [k \in 1..Len(b_ids) |-> PayloadFor(b_ids[k])], b_batch, 0)
     IN  b_done' = [returned |-> TRUE, store |-> done.store, calls |-> done.calls]
  /\ UNCHANGED <<b_store, b_ids, b_batch>>
  /\ UNCHANGED notBatch

\* the inputs of the loop: the ids load_payloads returned (pairwise distinct, up to
\* MaxBatchRows of them), a batch size from 1 on, and the collection after the
\* create / recreate step: empty, or with points of an earlier run
MaxBatchRows == 3
MaxBatch     == 4
PointIds == {0, 1, 2, 5}

IdLists ==
  {l \in SeqsUpTo(PointIds, MaxBatchRows) : \A j, k \in 1..Len(l) : j # k => l[j] # l[k]}

EarlierPoint(id) ==
  [vector |-> Embed("earlier"), payload |-> [PayloadFor(id) EXCEPT !.text = "earlier"]]

StoresBefore ==
  { [exists |-> TRUE, points |-> <<>>],
    [exists |-> TRUE, points |-> [key \in {1, 7} |-> EarlierPoint(key)]] }

(***************************************************************************)
(* save_kb_files.py, then upsert_to_qdrant_from_files.py: the id checks of   *)
(* the writer, and load_payloads on the payloads.jsonl the writer wrote      *)
(***************************************************************************)
NotLoaded == [exit |-> "<not run>", ids |-> <<>>, payloads |-> <<>>]

\* save_kb_files.py, main: the id checks on the rows load_jsonl yielded, and
\* payloads.jsonl, one line per row, when they pass (the encoding has a row per text)
ChainWrite ==
  /\ ch_pc = "write"
  /\ LET id_list == [i \in 1..Len(ch_rows) |-> ch_rows[i].id]
     IN  IF ch_rows = <<>>
         THEN ch_wexit' = ExitNoRows /\ ch_file' = NotWritten /\ ch_pc' = "done"
         ELSE IF \E i \in 1..Len(id_list) : id_list[i] = NoId
         THEN ch_wexit' = ExitMissingId /\ ch_file' = NotWritten /\ ch_pc' = "done"
         ELSE IF DuplicateIds(id_list)
         THEN ch_wexit' = ExitDuplicateId /\ ch_file' = NotWritten /\ ch_pc' = "done"
         ELSE ch_wexit' = "ok" /\ ch_file' = File(ch_rows) /\ ch_pc' = "load"
  /\ UNCHANGED <<ch_rows, ch_load>>
  /\ UNCHANGED notChain

\* upsert_to_qdrant_from_files.py: load_payloads(args.payloads) on that file
ChainLoad ==
  /\ ch_pc = "load"
  /\ ch_load' = load_payloads(ch_file.lines)
  /\ ch_pc' = "done"
  /\ UNCHANGED <<ch_rows, ch_wexit, ch_file>>
  /\ UNCHANGED notChain

\* the ids the rows are tried with: strings (the empty one too), numbers (0 too),
\* and none; up to MaxChainRows rows, all with a text the junk filter keeps
MaxChainRows == 3
ChainIds == {StrId("id-a"), StrId("id-b"), StrId(""), IntId(0), IntId(1), IntId(7), NoId}
ChainRows ==
  SeqsUpTo({PayloadRow(rid, GoodTextA, [chunk_label |-> "Overview"]) : rid \in ChainIds},
           MaxChainRows)

(***************************************************************************)
(* The specifications: one per component.  InitFor(component) draws the     *)
(* inputs of that component from its samples and leaves the others empty.   *)
(***************************************************************************)
CourseCodeArgs == {None, "", "c10302", "C10302", "C10242", "c99999"}
CourseNameArgs == {None, "", "Sport", "sport"}

InitFor(component) ==
  /\ corpus \in IF component = "ingest"
                THEN {S \in SUBSET (1..Len(Catalogue)) : Cardinality(S) <= MaxFiles}
                ELSE {{}}
  /\ dry_run \in IF component = "ingest" THEN BOOLEAN ELSE {TRUE}
  /\ now = 0
  /\ ipc = "start"
  /\ file_idx = 0
  /\ all_chunks = <<>>
  /\ courses_processed = 0
  /\ courses_skipped = 0
  /\ out_file = NotWritten
  /\ history = <<>>
  /\ runs = 0
  /\ hits \in IF component = "context" THEN SeqsUpTo(CtxSamples, MaxHits) ELSE {<<>>}
  /\ max_context_length \in IF component = "context" THEN 0..MaxBudget
                            ELSE {DefaultMaxContextLength}
  /\ hit_idx = 1
  /\ current_length = 0
  /\ context_parts = <<>>
  /\ included = <<>>
  /\ context = NoReturn
  /\ ghits \in IF component = "gate" THEN SeqsUpTo(GateSamples, MaxGateHits) ELSE {<<>>}
  /\ checks = NoChecks
  /\ collection \in IF component \in {"retrieve", "chat"} THEN Collections ELSE {<<>>}
  /\ rvariant \in IF component = "retrieve" THEN {"filtered_retrieval", "query_hybrid_rag"}
                  ELSE {"query_hybrid_rag"}
  /\ rcourse_code \in IF component = "retrieve" THEN CourseCodeArgs ELSE {None}
  /\ rcourse_name \in IF component = "retrieve" THEN CourseNameArgs ELSE {None}
  /\ rlimit \in IF component = "retrieve" THEN 1..MaxLimit ELSE {DEFAULT_K}
  /\ rflt = NotSent
  /\ rhits = NoHits
  /\ request \in IF component = "chat" THEN Requests
                 ELSE {[message |-> "", course_code |-> None, course_name |-> None,
                        history |-> <<>>, concise |-> TRUE, use_preprocessing |-> TRUE]}
  /\ cpc = "start"
  /\ final_course_code = None
  /\ paths = <<>>
  /\ response_text = None
  /\ chat_result = NoResult
  /\ jsonl \in IF component = "writer" THEN SeqsUpTo(SampleLines, MaxLines) ELSE {<<>>}
  /\ wpc = "load"
  /\ rows = <<>>
  /\ ids = <<>>
  /\ vecs = NotEncoded
  /\ emb_file = NotWritten
  /\ pay_file = NotWritten
  /\ man_file = NotWritten
  /\ wexit = "running"
  /\ payloads_file = <<>>
  /\ emb_rows = <<>>
  /\ no_recreate = FALSE
  /\ upc = IF component = "upsert" THEN "start" ELSE "off"
  /\ uids = <<>>
  /\ upayloads = <<>>
  /\ uexit = "none"
  /\ qdrant = NoCollection
  /\ qdrant_before = NoCollection
  /\ ops = <<>>
  /\ all_unique = TRUE
  /\ \E input \in IF component = "chunker" THEN ChunkerInputs
                   ELSE {[data |-> EmptyRecord, name |-> ""]} :
       course_record = input.data /\ file_name = input.name
  /\ resolved_code = NoReturn
  /\ made_chunks = NoChunks
  /\ junk_text \in IF component = "junk" THEN JunkTexts ELSE {None}
  /\ junk_verdict = NoVerdict
  /\ q_func \in IF component = "query" THEN {"query_with_full_pipeline", "query_courses"}
                ELSE {"query_courses"}
  /\ q_hits \in IF component = "query" THEN SeqsUpTo(CtxSamples, MaxHits) ELSE {<<>>}
  /\ q_topn \in IF component = "query" THEN TopNs ELSE {DEFAULT_TOPN}
  /\ q_shown = <<>>
  /\ q_answer = NoAnswer
  /\ b_store \in IF component = "batch" THEN StoresBefore ELSE {NoCollection}
  /\ b_ids \in IF component = "batch" THEN IdLists ELSE {<<>>}
  /\ b_batch \in IF component = "batch" THEN 1..MaxBatch ELSE {DefaultBatch}
  /\ b_done = NotLooped
  /\ ch_rows \in IF component = "chain" THEN ChainRows ELSE {<<>>}
  /\ ch_pc = "write"
  /\ ch_wexit = ""
  /\ ch_file = NotWritten
  /\ ch_load = NotLoaded

IngestNext   == IngestStart \/ IngestFile \/ IngestWrite \/ IngestAgain
ContextNext  == CtxVisit \/ CtxReturn
GateNext     == GateCheck
RetrieveNext == RetrieveFiltered \/ RetrieveHybrid
ChatNext     == ChatStart \/ PrimaryRetrieve \/ PrimaryRaises \/ HybridRetrieve
                  \/ HybridRaises \/ Generate \/ ChatRespond
WriterNext   == WriterLoad \/ WriterCheckIds \/ WriterEmbed \/ WriterSave
UpsertNext   == UpsertStart \/ UpsertLoad \/ UpsertCollection \/ UpsertPoints
ChunkerNext  == CallGetCourseCode \/ CallCreateChunks
JunkNext == CallLooksJunky
QueryNext == CallQuery
BatchNext == CallUpsertLoop
ChainNext == ChainWrite \/ ChainLoad

SpecIngest   == InitFor("ingest")   /\ [][IngestNext]_vars
SpecContext  == InitFor("context")  /\ [][ContextNext]_vars
SpecGate     == InitFor("gate")     /\ [][GateNext]_vars
SpecRetrieve == InitFor("retrieve") /\ [][RetrieveNext]_vars
SpecChat     == InitFor("chat")     /\ [][ChatNext]_vars
SpecWriter   == InitFor("writer")   /\ [][WriterNext]_vars
SpecUpsert   == InitFor("upsert")   /\ [][UpsertNext]_vars
SpecChunker  == InitFor("chunker")  /\ [][ChunkerNext]_vars
SpecJunk == InitFor("junk") /\ [][JunkNext]_vars
SpecQuery == InitFor("query") /\ [][QueryNext]_vars
SpecBatch == InitFor("batch") /\ [][BatchNext]_vars
SpecChain == InitFor("chain") /\ [][ChainNext]_vars

Next == IngestNext \/ ContextNext \/ GateNext \/ RetrieveNext \/ ChatNext \/ WriterNext
          \/ UpsertNext \/ ChunkerNext \/ JunkNext \/ QueryNext \/ BatchNext \/ ChainNext
Components == {"ingest", "context", "gate", "retrieve", "chat", "writer", "upsert", "chunker",
               "junk",
               "query",
               "batch",
               "chain"}
Init == \E component \in Components : InitFor(component)
Spec == Init /\ [][Next]_vars

(***************************************************************************)
(* Properties of the ingest run (SpecIngest)                                *)
(***************************************************************************)
\* a chunk with its meta.ingested_at blanked
WithoutIngestedAt(chunk) == [chunk EXCEPT !.meta.ingested_at = 0]

SameButIngestedAt(chunks1, chunks2) ==
  /\ Len(chunks1) = Len(chunks2)
  /\ \A k \in 1..Len(chunks1) :
       /\ chunks1[k].id = chunks2[k].id
       /\ chunks1[k].text = chunks2[k].text
       /\ WithoutIngestedAt(chunks1[k]) = WithoutIngestedAt(chunks2[k])

\* C1: two calls of create_chunks_from_course on the same record and filename give
\* the same list of chunks, ids and texts alike and in the same order; nothing but
\* meta.ingested_at differs between them.
C1_SameInputSameChunks ==
  \A i, j \in 1..Len(history) :
    history[i].file = history[j].file =>
      /\ history[i].raised = history[j].raised
      /\ SameButIngestedAt(history[i].chunks, history[j].chunks)

\* one file chunked twice, at two different times, into at least two chunks
C1_Witness ==
  \E i, j \in 1..Len(history) :
    /\ i < j
    /\ history[i].file = history[j].file
    /\ Len(history[i].chunks) >= 2
    /\ Len(history[j].chunks) >= 2
    /\ history[i].chunks[1].meta.ingested_at # history[j].chunks[1].meta.ingested_at

PairwiseDistinctIds(chunks) ==
  \A i, j \in 1..Len(chunks) : i # j => chunks[i].id # chunks[j].id

\* C2: the ids of the chunks one ingest run collects and writes are pairwise
\* distinct, also when two files carry the same course code and the same URL.
C2_ChunkIdsDistinct ==
  /\ PairwiseDistinctIds(all_chunks)
  /\ out_file.written => PairwiseDistinctIds(out_file.lines)

\* a run has written the chunks of two files that share course code and URL
C2_Witness ==
  /\ out_file.written
  /\ \E i, j \in 1..Len(out_file.lines) :
       /\ i # j
       /\ out_file.lines[i].meta.course_code = out_file.lines[j].meta.course_code
       /\ out_file.lines[i].meta.source_url = out_file.lines[j].meta.source_url
       /\ out_file.lines[i].meta.chunk_type = out_file.lines[j].meta.chunk_type
       /\ out_file.lines[i].text = out_file.lines[j].text

(***************************************************************************)
(* Properties of build_course_context (SpecContext)                         *)
(***************************************************************************)
\* len(payload.get("text", "")) of the hit at position p
TextLen(p) == Len(PGet(hits[p].payload, "text", ""))

\* the sum of the text lengths of the first n included hits
RECURSIVE IncludedLen(_)
IncludedLen(n) == IF n = 0 THEN 0 ELSE IncludedLen(n - 1) + TextLen(included[n])

\* the sum of the text lengths of the included hits ranked before position p
LenBefore(p) == IncludedLen(Cardinality({k \in 1..Len(included) : included[k] < p}))

\* C3: the included hits stand in the context in their ranked order, and the sum
\* of their raw text lengths never exceeds max_context_length.
C3_RankedOrderWithinBudget ==
  /\ \A k \in 1..Len(included) : included[k] \in 1..Len(hits)
  /\ \A k \in 1..(Len(included) - 1) : included[k] < included[k + 1]
  /\ Len(context_parts) = Len(included)
  /\ \A k \in 1..Len(included) : context_parts[k] = ContextPart(hits[included[k]].payload)
  /\ IncludedLen(Len(included)) <= max_context_length
  /\ context # NoReturn =>
       /\ context = Join("\n\n", context_parts)
       /\ context = build_course_context(hits, max_context_length)

\* the function has returned a context of two hits and left a third one out
C3_Witness ==
  /\ context # NoReturn
  /\ Len(hits) = 3
  /\ Len(included) = 2
  /\ IncludedLen(2) >= 3

\* C4 as stated: the included hits form a prefix of the list, no hit after an
\* excluded one is included.
C4_IncludedIsPrefix ==
  \A k \in 1..Len(included) : included[k] = k

\* C4, amended: a hit that does not fit is skipped and the loop goes on; every
\* visited hit is included exactly when the lengths of the hits included before
\* it plus its own length stay below max_context_length.
C4_SkipsAndContinues ==
  /\ \A k \in 1..(Len(included) - 1) : included[k] < included[k + 1]
  /\ \A p \in 1..Len(hits) :
       p < hit_idx =>
         ((\E k \in 1..Len(included) : included[k] = p)
            <=> LenBefore(p) + TextLen(p) < max_context_length)
  /\ context # NoReturn => hit_idx = Len(hits) + 1

\* the function has returned, having left out one hit and included a later one
C4_Witness ==
  /\ context # NoReturn
  /\ \E k \in 1..Len(included) : included[k] # k

(***************************************************************************)
(* Properties of the chat endpoint and its pipelines (SpecChat)             *)
(***************************************************************************)
CallsOf(path) == {i \in 1..Len(paths) : paths[i].path = path}

PrimaryEnded(outcome) == \E i \in CallsOf("primary") : paths[i].outcome = outcome

FallbackCountsRight ==
  /\ Cardinality(CallsOf("fallback")) <= 1
  /\ PrimaryEnded("raised") => Cardinality(CallsOf("fallback")) = 1
  /\ ~PrimaryEnded("raised") => CallsOf("fallback") = {}
  /\ request.use_preprocessing => CallsOf("direct") = {}

\* C5 as stated: with the primary pipeline on, query_courses is called once if
\* query_with_full_pipeline raises and never if it returns; when the fallback
\* returns, what it returned is the response text, with success true.
C5_FallbackResultIsResponse ==
  /\ FallbackCountsRight
  /\ \A i \in CallsOf("fallback") :
       (cpc = "done" /\ paths[i].outcome = "returned") =>
         /\ chat_result.kind = "response"
         /\ chat_result.success
         /\ chat_result.response = paths[i].text

\* C5, amended: the same, except that a fallback result that is empty or only
\* white space is replaced by the fixed "couldn't generate a response" text.
C5_FallbackOnceAndAnswered ==
  /\ FallbackCountsRight
  /\ \A i \in CallsOf("fallback") :
       (cpc = "done" /\ paths[i].outcome = "returned") =>
         /\ chat_result.kind = "response"
         /\ chat_result.success
         /\ chat_result.response =
              IF Strip(paths[i].text) = "" THEN CouldNotGenerate ELSE paths[i].text

\* the primary pipeline raised, the fallback generated an answer, chat returned it
C5_Witness ==
  /\ cpc = "done"
  /\ PrimaryEnded("raised")
  /\ \E i \in CallsOf("fallback") :
       /\ paths[i].outcome = "returned"
       /\ paths[i].generate_calls = 1
       /\ Strip(paths[i].text) # ""
       /\ chat_result.response = paths[i].text
       /\ chat_result.success

\* C6: a retrieval without hits makes the pipeline return the fixed text, with no
\* context assembled and no generation; a retrieval with a hit leads to one
\* generation, whatever min_results, has_high_quality and diverse_sources say.
C6_OnlyNoHitsShortCircuits ==
  \A i \in 1..Len(paths) :
    /\ (paths[i].retrieved /\ paths[i].hits = <<>>) =>
         /\ paths[i].outcome = "returned"
         /\ paths[i].text = NoInformationFound
         /\ paths[i].context_calls = 0
         /\ paths[i].generate_calls = 0
    /\ (paths[i].retrieved /\ paths[i].hits # <<>> /\ paths[i].generate) =>
         /\ paths[i].outcome = "running" =>
              (i = Len(paths) /\ cpc \in {"primary_generate", "hybrid_generate"})
         /\ paths[i].outcome = "returned" =>
              (paths[i].context_calls = 1 /\ paths[i].generate_calls = 1)
         /\ paths[i].outcome # "raised"

\* the primary pipeline generated an answer from a single low-scored hit
C6_Witness ==
  \E i \in CallsOf("primary") :
    /\ paths[i].outcome = "returned"
    /\ Len(paths[i].hits) = 1
    /\ ~paths[i].quality.min_results
    /\ ~paths[i].quality.has_high_quality
    /\ ~paths[i].quality.diverse_sources
    /\ paths[i].generate_calls = 1

(***************************************************************************)
(* Properties of check_result_quality (SpecGate)                            *)
(***************************************************************************)
\* the distinct course codes among the first three hits
TopCodes == {ghits[i].payload.course_code : i \in {k \in 1..Len(ghits) : k <= 3}}

Flags(a, b, c, d) ==
  /\ checks.has_results = a
  /\ checks.min_results = b
  /\ checks.has_high_quality = c
  /\ checks.diverse_sources = d

\* C7: has_results is "some hit", min_results "three hits or more",
\* has_high_quality "the first score is above 0.3", diverse_sources "more than one
\* course code among the first three hits"; one hit of score 0.9 gives true,
\* false, true, false, and three hits of two codes led by a score of 0.5 give all
\* four true.
C7_QualityFlags ==
  checks.returned =>
    /\ Flags(Len(ghits) > 0, Len(ghits) >= 3, Len(ghits) > 0 /\ ghits[1].score > 30,
             Cardinality(TopCodes) > 1)
    /\ (Len(ghits) = 1 /\ ghits[1].score = 90) => Flags(TRUE, FALSE, TRUE, FALSE)
    /\ (Len(ghits) = 3 /\ Cardinality(TopCodes) = 2 /\ ghits[1].score = 50)
         => Flags(TRUE, TRUE, TRUE, TRUE)

\* the gate has judged three hits of two courses, the first scored 0.5
C7_Witness ==
  /\ checks.returned
  /\ Len(ghits) = 3
  /\ Cardinality(TopCodes) = 2
  /\ ghits[1].score = 50
  /\ Flags(TRUE, TRUE, TRUE, TRUE)

(***************************************************************************)
(* Properties of retrieve_courses (SpecRetrieve)                            *)
(***************************************************************************)
Given(arg) == arg # None /\ arg # ""

\* whether a stored payload is what the arguments ask for
Wanted(payload) ==
  /\ Given(rcourse_code) => payload.course_code = Upper(rcourse_code)
  /\ Given(rcourse_name) =>
       (payload.course_name # None /\ Contains(payload.course_name, rcourse_name))

\* C8: the filter is an exact match on the upper-cased course_code, a text match
\* on course_name, both when both are given and none when neither is; every hit
\* returned carries the upper-cased requested code, and the hits are the best
\* scored of the stored points that the filter lets through.
C8_FilterByCodeAndName ==
  rhits.returned =>
    /\ rflt.sent
    /\ rflt.flt.none = (~Given(rcourse_code) /\ ~Given(rcourse_name))
    /\ rflt.flt.must =
            (IF Given(rcourse_code)
             THEN <<[key |-> "course_code", match |-> "value", arg |-> Upper(rcourse_code)]>>
             ELSE <<>>)
         \o (IF Given(rcourse_name)
             THEN <<[key |-> "course_name", match |-> "text", arg |-> rcourse_name]>>
             ELSE <<>>)
    /\ \A k \in 1..Len(rhits.hits) :
         /\ Wanted(rhits.hits[k].payload)
         /\ \E i \in 1..Len(collection) :
              /\ collection[i].payload = rhits.hits[k].payload
              /\ collection[i].sim = rhits.hits[k].score
    /\ \A k \in 1..(Len(rhits.hits) - 1) : rhits.hits[k].score >= rhits.hits[k + 1].score
    /\ LET wanted == Cardinality({i \in 1..Len(collection) : Wanted(collection[i].payload)})
       IN  Len(rhits.hits) = IF wanted < rlimit THEN wanted ELSE rlimit

\* a lower-case code and a name were given; some stored points came back, the
\* point stored under the lower-case code did not
C8_Witness ==
  /\ rhits.returned
  /\ rcourse_code = "c10302"
  /\ rcourse_name = "Sport"
  /\ Len(rhits.hits) >= 2
  /\ \E i \in 1..Len(collection) : collection[i].payload.course_code = "c10302"
  /\ \A k \in 1..Len(rhits.hits) : rhits.hits[k].payload.course_code = "C10302"

(***************************************************************************)
(* Properties of the index writer, save_kb_files.py (SpecWriter)            *)
(***************************************************************************)
\* the input rows that are not blank lines and pass the junk filter
Survivors == SelectSeq(jsonl, LAMBDA rec : ~rec.blank /\ ~looks_junky(rec.text))

NothingWritten == ~emb_file.written /\ ~pay_file.written /\ ~man_file.written

MustAbort ==
  LET kept == Survivors
  IN  \/ kept = <<>>
      \/ \E i \in 1..Len(kept) : kept[i].id = None
      \/ \E i, j \in 1..Len(kept) : i # j /\ kept[i].id = kept[j].id
      \/ vecs.returned /\ Len(vecs.rows) # Len(kept)

\* C9: when no row survives the junk filter, or a surviving row has no id, or two
\* surviving rows share an id, or the embedding has another number of rows than the
\* payload, main ends in a SystemExit and writes none of the three files.
C9_AbortsAndWritesNothing ==
  MustAbort =>
    /\ NothingWritten
    /\ wexit # "ok"
    /\ wpc # "save"
    /\ wpc = "done" => wexit \in Fatal

\* all id checks passed, the embedding came back with a wrong row count, main
\* exited and no file is there
C9_Witness ==
  /\ wpc = "done"
  /\ wexit = ExitMismatch
  /\ Len(rows) >= 2
  /\ vecs.returned
  /\ NothingWritten

RowAligned ==
  /\ emb_file.written /\ pay_file.written /\ man_file.written
  /\ Len(emb_file.lines) = Len(pay_file.lines)
  /\ Len(ids) = Len(pay_file.lines)
  /\ man_file.lines[1].n_points = Len(pay_file.lines)
  /\ \A i \in 1..Len(pay_file.lines) :
       /\ emb_file.lines[i] = [embedding_of |-> pay_file.lines[i].text]
       /\ ids[i] = pay_file.lines[i].id

\* C10 as stated: after a successful run payloads.jsonl holds exactly the input
\* rows that pass the junk filter, in input order; vectors, payload rows, ids and
\* the manifest's n_points agree in number; vector i embeds the text of row i.
C10_PayloadIsInputRows ==
  wexit = "ok" => (pay_file.lines = Survivors /\ RowAligned)

\* C10, amended: payloads.jsonl holds one row per surviving input row, in input
\* order, with that row's id and text, and with its meta completed: page_end is
\* added when absent, copied from page_start, null when there is none.
C10_PayloadIsCompletedInputRows ==
  wexit = "ok" =>
    LET kept == Survivors
    IN
    /\ RowAligned
    /\ Len(pay_file.lines) = Len(kept)
    /\ \A i \in 1..Len(kept) :
         LET given   == kept[i]
             written == pay_file.lines[i]
         IN  /\ written.id = given.id
             /\ written.text = given.text
             /\ ~written.blank
             /\ written.meta.given
             /\ written.meta.page_start = given.meta.page_start
             /\ written.meta.page_end =
                  IF given.meta.page_end # Missing THEN given.meta.page_end
                  ELSE IF given.meta.page_start # Missing THEN given.meta.page_start
                  ELSE None

\* a run succeeded on three lines, one of them junk, and completed a meta
C10_Witness ==
  /\ wexit = "ok"
  /\ Len(jsonl) = 3
  /\ Len(pay_file.lines) = 2
  /\ \E i \in 1..2 : pay_file.lines[i] # Survivors[i]
  /\ \E i \in 1..3 : ~jsonl[i].blank /\ looks_junky(jsonl[i].text)

(***************************************************************************)
(* Properties of the upsert script (SpecUpsert)                             *)
(***************************************************************************)
\* the last run of the script has ended this way
RunEnded(how) == upc = "start" /\ uexit = how

\* the chunk ids of the rows of the payloads file
BatchChunkIds == {RowsOf(payloads_file)[k].id : k \in 1..Len(RowsOf(payloads_file))}

\* the point that the k-th row of the payloads file is to become
PointOfRow(k) ==
  LET r == RowsOf(payloads_file)[k]
  IN  [vector  |-> emb_rows[k],
       payload |-> [meta |-> r.meta, text |-> r.text, row_id |-> r.id]]

\* C11 as stated: after an incremental run (--no_recreate) every point that was
\* in the collection before and whose chunk id is not in the batch is still
\* there, with the same vector and payload.
C11_IncrementalKeepsOtherPoints ==
  (RunEnded("ok") /\ no_recreate) =>
    \A key \in DOMAIN qdrant_before.points :
      qdrant_before.points[key].payload.row_id \notin BatchChunkIds =>
        /\ key \in DOMAIN qdrant.points
        /\ qdrant.points[key] = qdrant_before.points[key]

\* C12 as stated: after any sequence of runs whose batches each hold a chunk id
\* at most once, no two points of the collection carry the same row_id.
C12_OnePointPerChunkId ==
  all_unique =>
    \A key1, key2 \in DOMAIN qdrant.points :
      key1 # key2 => qdrant.points[key1].payload.row_id # qdrant.points[key2].payload.row_id

\* C13: after a successful rebuild run the collection holds one point per row of
\* the batch and nothing else; each point has the vector of its row and a payload
\* of the row's meta, text and row_id, the row_id being the row's own id also
\* where the point is keyed by a line index.
C13_RebuildHoldsExactlyTheBatch ==
  (RunEnded("ok") /\ ~no_recreate) =>
    /\ qdrant.exists
    /\ Cardinality(DOMAIN qdrant.points) = Len(RowsOf(payloads_file))
    /\ \A key \in DOMAIN qdrant.points :
         \E k \in 1..Len(RowsOf(payloads_file)) : qdrant.points[key] = PointOfRow(k)
    /\ \A k \in 1..Len(RowsOf(payloads_file)) :
         \E key \in DOMAIN qdrant.points : qdrant.points[key] = PointOfRow(k)

\* a rebuild has replaced a collection that held another chunk by a batch of two
\* rows, one of them with a string id
C13_Witness ==
  /\ RunEnded("ok")
  /\ ~no_recreate
  /\ Len(RowsOf(payloads_file)) = 2
  /\ \E key \in DOMAIN qdrant_before.points :
       qdrant_before.points[key].payload.row_id \notin BatchChunkIds
  /\ \E key \in DOMAIN qdrant.points : qdrant.points[key].payload.row_id.t = "str"

\* C14 as stated: a payloads file with two rows of the same id makes the script
\* fail before it touches the collection.
C14_DuplicateIdsAbort ==
  ~UniqueChunkIds(payloads_file) => (ops = <<>> /\ uexit # "ok")

\* C15: when the embeddings have another number of rows than the payloads file,
\* or a row has no id, the script exits before any collection operation: the
\* collection is neither dropped, nor created, nor changed, in either mode.
C15_AbortsBeforeTheCollection ==
  (\/ Len(emb_rows) # Len(RowsOf(payloads_file))
   \/ \E k \in 1..Len(RowsOf(payloads_file)) : RowsOf(payloads_file)[k].id.t = "none") =>
    /\ ops = <<>>
    /\ qdrant = qdrant_before
    /\ upc \in {"start", "load"}
    /\ upc = "start" => uexit \in {ExitRowMissingId, ExitDuplicateIds, ExitEmbMismatch}

\* a rebuild run over a collection with points has exited on a row count mismatch
C15_Witness ==
  /\ RunEnded(ExitEmbMismatch)
  /\ ~no_recreate
  /\ DOMAIN qdrant.points # {}
  /\ qdrant = qdrant_before

(***************************************************************************)
(* Properties of get_course_code and create_chunks_from_course             *)
(* (SpecChunker)                                                            *)
(***************************************************************************)
Chunked == made_chunks.returned /\ ~made_chunks.raised

ChunkTypes == [i \in 1..Len(made_chunks.chunks) |-> made_chunks.chunks[i].meta.chunk_type]

HasChunkOfType(chunk_type) == \E i \in 1..Len(ChunkTypes) : ChunkTypes[i] = chunk_type

\* C16 as stated: a chunkable field has a chunk iff its formatted value has at
\* least 50 characters.
C16_ChunkIffFiftyCharacters ==
  Chunked =>
    \A field \in FieldNames :
      HasChunkOfType(field) <=> Len(format_field_value(course_record[field])) >= 50

\* C16, amended: a chunkable field has a chunk iff its formatted value, without
\* its leading and trailing white space, has at least 50 characters; a value of
\* 49 characters has no chunk and a value of 50 characters has one.
C16_ChunkIffFiftyCharactersStripped ==
  Chunked =>
    \A field \in FieldNames :
      HasChunkOfType(field) <=> Len(Strip(format_field_value(course_record[field]))) >= 50

\* one record gave a chunk for a field of 50 characters and none for a field of
\* 49 characters
C16_Witness ==
  /\ Chunked
  /\ \E kept, dropped \in FieldNames :
       /\ Len(format_field_value(course_record[kept])) = 50
       /\ HasChunkOfType(kept)
       /\ Len(format_field_value(course_record[dropped])) = 49
       /\ ~HasChunkOfType(dropped)

\* the chunk types in the order the function visits them
TypeOrder ==
  [k \in 1..Len(chunkable_fields) |-> chunkable_fields[k][1]]
    \o <<"learning_outcomes", "course_info">>

RankOf(chunk_type) == CHOOSE k \in 1..Len(TypeOrder) : TypeOrder[k] = chunk_type

\* C17: the chunks of a record come in the order of the field list, then
\* learning_outcomes, then course_info; the chunk at position i (from 0) has the
\* id made from ordinal i, so a skipped field uses up no ordinal.
C17_OrderAndOrdinals ==
  Chunked =>
    /\ \A i \in 1..Len(ChunkTypes) : \E k \in 1..Len(TypeOrder) : TypeOrder[k] = ChunkTypes[i]
    /\ \A i, j \in 1..Len(ChunkTypes) : i < j => RankOf(ChunkTypes[i]) < RankOf(ChunkTypes[j])
    /\ \A i \in 1..Len(ChunkTypes) :
         made_chunks.chunks[i].id =
           uuid5("course|" \o get_course_code(course_record, file_name)
                   \o "|type:" \o ChunkTypes[i]
                   \o "|chunk:" \o IntStr(i - 1)
                   \o "|unique:" \o Stem(file_name))

\* a record with a skipped field before a kept one gave a field chunk, a
\* learning_outcomes chunk and a course_info chunk
C17_Witness ==
  /\ Chunked
  /\ Len(ChunkTypes) = 3
  /\ ChunkTypes[2] = "learning_outcomes"
  /\ ChunkTypes[3] = "course_info"
  /\ \E skipped \in FieldNames :
       /\ Truthy(course_record[skipped])
       /\ ~HasChunkOfType(skipped)
       /\ RankOf(skipped) < RankOf(ChunkTypes[1])

Resolved == resolved_code \notin {NoReturn, Raised}

\* the record's course_code value, "" where the record has none
CodeValue == GetOr(course_record.course_code, "")

LetterAndFiveDigits(code) ==
  /\ Len(code) = 6
  /\ \E i \in 1..26 : Ch(code, 1) \in {Ch(LowerAlpha, i), Ch(UpperAlpha, i)}
  /\ DigitsAt(code, 2, 5)

CAndFiveDigits(code) == LetterAndFiveDigits(code) /\ Ch(code, 1) \in {"C", "c"}

\* the first letter-and-five-digits code anywhere in the text, or None
CodeAnywhere(text) ==
  LET P == {i \in 1..Len(text) : i + 5 <= Len(text) /\ LetterAndFiveDigits(SubSeq(text, i, i + 5))}
      i == CHOOSE k \in P : \A j \in P : k <= j
  IN  IF P = {} THEN None ELSE SubSeq(text, i, i + 5)

\* C18 as stated: a course_code value of one letter and 5 digits resolves to that
\* value uppercased; otherwise a source URL that contains a course code resolves
\* to the URL's code uppercased.
C18_ValueThenUrl ==
  Resolved =>
    IF LetterAndFiveDigits(CodeValue) THEN resolved_code = Upper(CodeValue)
    ELSE CodeAnywhere(SourceUrl(course_record)) # None =>
           resolved_code = Upper(CodeAnywhere(SourceUrl(course_record)))

\* C18, amended: a course_code value that, without its surrounding white space,
\* is the letter C (either case) and 5 digits resolves to that stripped value
\* uppercased, whatever the URL and the filename hold; otherwise a source URL
\* that holds /courses/ followed by C (either case) and 5 digits resolves to
\* that code uppercased.
C18_CValueThenCoursesUrl ==
  Resolved =>
    IF CAndFiveDigits(Strip(CodeValue)) THEN resolved_code = Upper(Strip(CodeValue))
    ELSE \A i \in 1..Len(SourceUrl(course_record)) :
           (/\ OccursAt(SourceUrl(course_record), "/courses/", i)
            /\ CAndFiveDigits(SubSeq(SourceUrl(course_record), i + 9, i + 14))) =>
             resolved_code = Upper(SubSeq(SourceUrl(course_record), i + 9, i + 14))

\* a value of C and 5 digits between blanks won over a URL and a filename that
\* hold two other codes
C18_Witness ==
  /\ Resolved
  /\ CodeValue = " C10242 "
  /\ SourceUrl(course_record) = "https://handbook.uts.edu.au/courses/c20060.html"
  /\ file_name = "Sport_C10302.json"
  /\ resolved_code = "C10242"

\* C19 as stated: when the value does not match and the URL yields no code, a
\* course code in the filename is the resolved code.
C19_FilenameCode ==
  (/\ Resolved
   /\ ~CAndFiveDigits(Strip(CodeValue))
   /\ extract_course_code_from_url(SourceUrl(course_record)) = None
   /\ extract_course_code_from_filename(file_name) # None) =>
    resolved_code = extract_course_code_from_filename(file_name)

\* C20 as stated: when the value, the URL and the filename yield no code, the
\* resolved code is the raw value uppercased if the record has one, "UNKNOWN" if
\* the value is absent or empty, and never empty.
C20_RawValueOrUnknown ==
  (/\ Resolved
   /\ ~CAndFiveDigits(Strip(CodeValue))
   /\ extract_course_code_from_url(SourceUrl(course_record)) = None
   /\ extract_course_code_from_filename(file_name) = None) =>
    /\ resolved_code # ""
    /\ resolved_code = IF Strip(CodeValue) = "" THEN "UNKNOWN" ELSE Upper(Strip(CodeValue))

(***************************************************************************)
(* Properties of looks_junky (SpecJunk)                                     *)
(***************************************************************************)
Trimmed == Strip(IF junk_text = None THEN "" ELSE junk_text)

IsBlankPageLine(t) ==
  Lower(t) \in {"this page has been left intentionally blank",
                "this page has been left intentionally blank."}

\* C21: looks_junky is true exactly when the trimmed text is empty, or shorter
\* than 40 characters, or the line "this page has been left intentionally blank",
\* or a page footer line "page N of M", or more than half digits; a trimmed text of
\* exactly 40 characters, or of exactly half digits, that is no boilerplate line
\* is not junk.
C21_JunkExactlyWhen ==
  junk_verdict.returned =>
    (junk_verdict.junky <=>
       \/ Trimmed = ""
       \/ Len(Trimmed) < 40
       \/ IsBlankPageLine(Trimmed)
       \/ MatchFrom(Trimmed, 1, JUNK_PAGE_FOOTER)
       \/ 2 * DigitCount(Trimmed) > Len(Trimmed))

\* a text between blanks whose trimmed form has exactly 40 characters, exactly 20
\* of them digits, was found not to be junk
C21_Witness ==
  /\ junk_verdict.returned
  /\ ~junk_verdict.junky
  /\ junk_text # None
  /\ Len(junk_text) > 40
  /\ Len(Trimmed) = 40
  /\ DigitCount(Trimmed) = 20

(***************************************************************************)
(* Further properties of the chat endpoint (SpecChat)                       *)
(***************************************************************************)
\* C22 as stated: the retrieval of the fallback path is issued without a
\* course_code and without a course_name filter.
C22_FallbackUnfiltered ==
  \A i \in CallsOf("fallback") :
    /\ paths[i].course_code = None
    /\ paths[i].course_name = None
    /\ paths[i].retrieved =>
         \A k \in 1..Len(collection) :
           \E h \in 1..Len(paths[i].hits) : paths[i].hits[h].payload = collection[k].payload

\* C23 as stated: when the generation call of the primary path fails, the chat
\* endpoint invokes query_courses.
C23_GenerationFailureFallsBack ==
  (cpc = "done" /\ \E i \in CallsOf("primary") : paths[i].generation = "failed") =>
    CallsOf("fallback") # {}

\* the call whose result chat answers with, if a call returned
Answered(i) == i = Len(paths) /\ paths[i].outcome = "returned"

\* C24: for a request with a message, whatever fails, chat is at one of its
\* steps, each of which it can leave, until it ends, and it ends with a response
\* object and with no exception; the response is the apology with success false
\* exactly when the primary and the fallback path both raised, or the direct
\* path raised.
C24_AlwaysAResponse ==
  Strip(request.message) # "" =>
    /\ cpc \in {"start", "primary", "primary_generate", "hybrid", "hybrid_generate",
                "respond", "done"}
    /\ cpc = "done" =>
         /\ chat_result.kind = "response"
         /\ chat_result.response # None
         /\ (\E i \in 1..Len(paths) :
               paths[i].path \in {"fallback", "direct"} /\ paths[i].outcome = "raised")
              <=> (chat_result.response = Apology /\ ~chat_result.success)

\* the primary path and the fallback path both raised, and chat answered with
\* the apology
C24_Witness ==
  /\ cpc = "done"
  /\ PrimaryEnded("raised")
  /\ \E i \in CallsOf("fallback") : paths[i].outcome = "raised"
  /\ chat_result.kind = "response"
  /\ chat_result.response = Apology
  /\ ~chat_result.success

\* C25: when the path that produced the answer, primary, fallback or direct,
\* returns an empty or blank string, chat answers with the fixed "couldn't
\* generate a response" text; any other answer is returned unchanged.
C25_BlankAnswerReplaced ==
  cpc = "done" =>
    \A i \in 1..Len(paths) :
      Answered(i) =>
        /\ chat_result.kind = "response"
        /\ chat_result.success
        /\ Strip(paths[i].text) = "" => chat_result.response = CouldNotGenerate
        /\ Strip(paths[i].text) # "" => chat_result.response = paths[i].text

\* the direct path returned a string of blanks and chat answered with the fixed
\* text
C25_Witness ==
  /\ cpc = "done"
  /\ \E i \in CallsOf("direct") :
       /\ Answered(i)
       /\ paths[i].text = "  "
  /\ chat_result.response = CouldNotGenerate

(***************************************************************************)
(* A further property of the ingest run (SpecIngest)                        *)
(***************************************************************************)
\* C26 as stated: a record with a malformed field is not dropped: each of its
\* well-formed chunkable fields that is long enough has its chunk in the output
\* of the record.
C26_MalformedFieldSkipped ==
  \A h \in 1..Len(history) :
    \A k \in 1..Len(chunkable_fields) :
      LET value == Catalogue[history[h].file].data[chunkable_fields[k][1]]
      IN  (~ListRaises(value) /\ FieldEmitted(value)) =>
            \E i \in 1..Len(history[h].chunks) :
              history[h].chunks[i].meta.chunk_type = chunkable_fields[k][1]

(***************************************************************************)
(* A further property of build_course_context (SpecContext)                 *)
(***************************************************************************)
Excluded(p) == p < hit_idx /\ \A k \in 1..Len(included) : included[k] # p

\* C28 as stated: a hit is excluded only when its text would take the running
\* total above max_chars; a hit that takes the total to exactly max_chars is
\* included.
C28_ExcludedOnlyAboveBudget ==
  \A p \in 1..Len(hits) :
    Excluded(p) => LenBefore(p) + TextLen(p) > max_context_length

\* C28, amended: a hit is excluded exactly when its text would take the running
\* total to max_chars or above; the total of the included texts stays below
\* max_chars, and a hit that takes it to exactly max_chars is excluded.
C28_ExcludedFromBudgetOn ==
  /\ \A p \in 1..Len(hits) :
       p < hit_idx => (Excluded(p) <=> LenBefore(p) + TextLen(p) >= max_context_length)
  /\ included # <<>> => current_length < max_context_length

\* the function has returned, having left out a hit after an included one whose
\* text would have taken the total to exactly the budget
C28_Witness ==
  /\ context # NoReturn
  /\ \E p \in 2..Len(hits) :
       /\ Excluded(p)
       /\ LenBefore(p) > 0
       /\ TextLen(p) > 0
       /\ LenBefore(p) + TextLen(p) = max_context_length

(***************************************************************************)
(* A property of the two query functions (SpecQuery)                        *)
(***************************************************************************)
\* C29: for the same retrieved hits and the same generation service, either
\* function returns the same text for every topn: the context is made of all the
\* hits, and topn only selects the hits that are displayed.
C29_AnswerIndependentOfTopn ==
  q_answer.returned =>
    /\ \A topn \in TopNs : QueryResult(q_func, q_hits, topn) = q_answer.text
    /\ q_hits # <<>> =>
         /\ q_answer.text = "Answer from: " \o build_course_context(q_hits, 4000)
         /\ q_shown = Shown(q_hits, q_topn)

\* with topn 1 and three hits, one hit was displayed and the answer was made
\* from the texts of all three
C29_Witness ==
  /\ q_answer.returned
  /\ q_topn = 1
  /\ Len(q_hits) = 3
  /\ Len(q_shown) = 1
  /\ \A i \in 1..3 : PGet(q_hits[i].payload, "text", "") # ""
  /\ q_answer.text = "Answer from: " \o build_course_context(q_hits, 4000)
  /\ q_answer.text # "Answer from: " \o build_course_context(q_shown, 4000)

(***************************************************************************)
(* A property of the upsert loop (SpecBatch)                                *)
(***************************************************************************)
RECURSIVE Concat(_)
Concat(lists) == IF lists = <<>> THEN <<>> ELSE Head(lists) \o Concat(Tail(lists))

\* the collection the loop leaves with batch size B
FinalStore(B) ==
  UpsertLoop([store |-> b_store, calls |-> <<>>], b_ids,
             [k \in 1..Len(b_ids) |-> VectorFor(b_ids[k])],
             [k \in 1..Len(b_ids) |-> PayloadFor(b_ids[k])], B, 0).store

\* C27: for the same ids, vectors, payloads and collection, every batch size from
\* 1 on sends each row exactly once, in row order, in calls of at most that many
\* rows, and leaves the collection in the same final state.
C27_BatchSizeIrrelevant ==
  b_done.returned =>
    /\ Concat(b_done.calls) = b_ids
    /\ \A c \in 1..Len(b_done.calls) : Len(b_done.calls[c]) \in 1..b_batch
    /\ \A B \in 1..(MaxBatch + 1) : FinalStore(B) = b_done.store
    /\ b_done.store.exists
    /\ DOMAIN b_done.store.points = DOMAIN b_store.points \cup {b_ids[k] : k \in 1..Len(b_ids)}
    /\ \A k \in 1..Len(b_ids) :
         b_done.store.points[b_ids[k]] =
           [vector |-> VectorFor(b_ids[k]), payload |-> PayloadFor(b_ids[k])]
    /\ \A key \in DOMAIN b_store.points :
         (\A k \in 1..Len(b_ids) : b_ids[k] # key) =>
           b_done.store.points[key] = b_store.points[key]

\* three rows went out in a batch of two and a batch of one, over a collection
\* that held one of the points already
C27_Witness ==
  /\ b_done.returned
  /\ b_batch = 2
  /\ Len(b_ids) = 3
  /\ Len(b_done.calls) = 2
  /\ Len(b_done.calls[2]) = 1
  /\ \E k \in 1..3 : b_ids[k] \in DOMAIN b_store.points

(***************************************************************************)
(* The writer and the upsert on the validity of ids (SpecChain)             *)
(***************************************************************************)
\* C30: every payloads.jsonl the writer wrote on a successful run is accepted by
\* load_payloads: it aborts neither for a missing id nor for duplicate ids.
C30_WriterOutputLoads ==
  (ch_pc = "done" /\ ch_wexit = "ok") => ch_load.exit = ""

=============================================================================
